---- MODULE Spec2Model ----
(***************************************************************************)
(* Forwarding engine of the Azure OpenAI reverse proxy                     *)
(* (src/azure_proxy/main.py): the non-streaming request/retry loop         *)
(* forward_nonstream, the streaming relay forward_stream_with_usage with   *)
(* its inline SSE usage parser, and the usage telemetry sink.              *)
(*                                                                         *)
(* One request is followed from the call of the forwarder to the moment    *)
(* the client has its whole answer (Spec), or from its arrival at a route  *)
(* handler (SpecRoute); SpecKey applies gen_idempotency_key to pairs of    *)
(* bodies and SpecLock runs log_usage_record for concurrent requests.      *)
(* Times are in hundredths of a second.                                    *)
(***************************************************************************)
EXTENDS Integers, Sequences, FiniteSets, TLC

VARIABLES
    OPENAI_COMPAT_ENABLED, \* main.py:28
    PROXY_TOKEN,      \* main.py:21, "" when no shared secret is configured
    DEFAULT_DEPLOYMENT, \* main.py:43, "" when no default is configured
    FORCE_JSON_RESPONSE, \* main.py:23
    scenario,         \* what is explored: "forwarder", every upstream behaviour
                      \* behind one routed request; "handler", every inbound
                      \* request in front of a plain upstream; "key"; "sink";
                      \* "parser"; "chunks"; "concurrent"; "documents"
    inbound,          \* the request as the route handler received it
    gen_called,       \* gen_idempotency_key was invoked for the request
    key_pair,         \* two request bodies given to gen_idempotency_key
    key_out,          \* the key gen_idempotency_key returned for each
    lk_pc,            \* usage sink: where each request is in log_usage_record
    lock_owner,       \* usage sink: the request holding _usage_lock, 0 if free
    awaits,           \* concurrent requests: the client.post calls, or the
                      \* stream chunks, each request has awaited to their end
    chunk_args,       \* create_overlapping_chunks: text, sentences_per_chunk,
                      \* overlap_sentences of the call
    chunk_out,        \* create_overlapping_chunks: the list returned
    SYNC_FRAGMENT_GENERATION, \* DocumentGQLModel.py:523
    documents,        \* document store: the row of each document id, NoRow
                      \* when there is none
    fragments,        \* document store: the committed fragment rows
    db_clock,         \* document store: the time of the last write
    gen_task,         \* generate_document_fragments: position, chunks left,
                      \* rows added to its session, rows created
    mutations,        \* the update and delete mutations in flight: position,
                      \* input and db_row of each caller
    doc_result,       \* what the last update or delete of a document returned
    calls,            \* the upstream calls made (url, headers, json), in order
    conn_open,        \* stream: the upstream connection is open
    pc,               \* position of the request: "request", "start", "ns_iter",
                      \* "ns_post", "st_connect", "st_read", "st_yield",
                      \* "st_parse", "done"
    mode,             \* "none" | "nonstream" | "stream"
    USAGE_LOG_PATH,   \* main.py:45, "" when no usage log file is configured
    usage_log,        \* lines appended to the usage log file
    records,          \* usage records handed to log_usage_record, in order
    sink_raised,      \* log_usage_record raised while writing the file
    delays,           \* forward_nonstream: delays of the loop not yet iterated
    slept,            \* forward_nonstream: asyncio.sleep calls made, in order
    outcomes,         \* forward_nonstream: outcome of every client.post, in order
    last_exc,         \* forward_nonstream: last_exc
    upstream,         \* the upstream response last received (status, body, headers)
    client,           \* what the client has received as the answer's head and body
    req,              \* the arguments the forwarder was called with
    wire,             \* stream: bytes the upstream has still to send
    sent,             \* stream: bytes read from the upstream so far
    opens,            \* stream: number of client.stream calls made
    chunk,            \* stream: the chunk of the current loop iteration
    relayed,          \* stream: bytes yielded to the client so far
    fed_bytes,        \* stream: bytes handed to the parser so far
    text_buf,         \* stream: _gen.text_buf
    usage_holder,     \* stream: _gen.usage_holder
    usage_counter,    \* stream: _gen.usage_counter
    status_code,      \* stream: _gen.status_code
    upstream_headers, \* stream: _gen.upstream_headers
    blocks,           \* stream: event blocks the parser has processed, in order
    stream_end        \* stream: "open" | "closed" | "error" | "crashed" |
                      \* "disconnected"

cfgVars == << OPENAI_COMPAT_ENABLED, PROXY_TOKEN, DEFAULT_DEPLOYMENT,
             FORCE_JSON_RESPONSE, scenario >>

ccVars == << awaits, chunk_args, chunk_out >>

docVars == << SYNC_FRAGMENT_GENERATION, documents, fragments, db_clock, gen_task,
             mutations, doc_result >>

asideVars == << key_pair, key_out, lk_pc, lock_owner, ccVars, docVars >>

\* what the forwarders leave alone
handlerVars == << cfgVars, inbound, gen_called, asideVars >>

vars == << handlerVars, calls, conn_open, pc, mode, USAGE_LOG_PATH, usage_log, records, sink_raised, delays,
           slept, outcomes, last_exc, upstream, client, req, wire, sent, opens,
           chunk, relayed, fed_bytes, text_buf, usage_holder,
           usage_counter, status_code, upstream_headers, blocks, stream_end >>

nsVars == << delays, slept, outcomes, last_exc >>

stVars == << wire, sent, opens, chunk, relayed, fed_bytes, text_buf,
             usage_holder, usage_counter, status_code, upstream_headers,
             blocks, stream_end >>

forwarderVars == << calls, conn_open, pc, mode, USAGE_LOG_PATH, usage_log, records,
                    sink_raised, nsVars, upstream, client, req, stVars >>

----------------------------------------------------------------------------
(* JSON values as Python sees them after json.loads: tagged tuples.        *)

JNull == << "null" >>

JStr(s) == << "str", s >>

JNum(n) == << "num", n >>

JList(s) == << "list", s >>

JObj(f) == << "obj", f >>

EmptyDict == JObj(<< >>)

\* isinstance(v, dict)
IsDict(v) == v[1] = "obj"

\* Python truthiness of a JSON value
Truthy(v) ==
    CASE v[1] = "null" -> FALSE
      [] v[1] = "str"  -> v[2] # ""
      [] v[1] = "num"  -> v[2] # 0
      [] v[1] = "list" -> Len(v[2]) > 0
      [] v[1] = "obj"  -> DOMAIN v[2] # {}
      [] v[1] = "odict" -> Len(v[2]) > 0
      [] v[1] = "bool" -> v[2]
      [] v[1] = "hexdigest" -> TRUE

\* a or b
PyOr(a, b) == IF Truthy(a) THEN a ELSE b

\* d.get(k) on a dict d
DictGet(d, k) == IF k \in DOMAIN d[2] THEN d[2][k] ELSE JNull

\* the outcome of an expression that may raise
Raised == << "raise" >>

----------------------------------------------------------------------------
(* Upstream responses of the non-streaming path.  Bodies are the texts the *)
(* upstream sends; r_json is what r.json() makes of each of them.          *)

BodyUsage == "{\"usage\":{\"prompt_tokens\":3,\"completion_tokens\":5,\"total_tokens\":8}}"

BodyUsageSpaced == "{\"usage\": {\"total_tokens\": 8}}"

BodyResponseUsage == "{\"response\":{\"usage\":{\"total_tokens\":7}}}"

BodyNoUsage == "{\"error\":{\"code\":\"NotFound\"}}"

BodyResponseStr == "{\"response\":\"x\"}"

BodyList == "[1]"

BodyNull == "null"

BodyText == "Service Unavailable"

BodyEmpty == ""

Bodies == { BodyUsage, BodyUsageSpaced, BodyResponseUsage, BodyNoUsage,
            BodyResponseStr, BodyList, BodyNull, BodyText, BodyEmpty }

Usage358 == JObj([prompt_tokens |-> JNum(3), completion_tokens |-> JNum(5),
                  total_tokens |-> JNum(8)])

UsageTotal(n) == JObj([total_tokens |-> JNum(n)])

\* r.json(): the parsed value, or the exception json raises on a text that
\* is not JSON
r_json(text) ==
    CASE text = BodyUsage         -> JObj([usage |-> Usage358])
      [] text = BodyUsageSpaced   -> JObj([usage |-> UsageTotal(8)])
      [] text = BodyResponseUsage -> JObj([response |-> JObj([usage |-> UsageTotal(7)])])
      [] text = BodyNoUsage       -> JObj([error |-> JObj([code |-> JStr("NotFound")])])
      [] text = BodyResponseStr   -> JObj([response |-> JStr("x")])
      [] text = BodyList          -> JList(<< JNum(1) >>)
      [] text = BodyNull          -> JNull
      [] OTHER                    -> Raised

\* JSONResponse(content=data).body: json.dumps of the parsed value with
\* separators (",", ":"), no whitespace between tokens
JSONResponse_render(data) ==
    CASE data = JObj([usage |-> Usage358]) -> BodyUsage
      [] data = JObj([usage |-> UsageTotal(8)]) -> "{\"usage\":{\"total_tokens\":8}}"
      [] data = JObj([response |-> JObj([usage |-> UsageTotal(7)])]) -> BodyResponseUsage
      [] data = JObj([error |-> JObj([code |-> JStr("NotFound")])]) -> BodyNoUsage
      [] data = JObj([response |-> JStr("x")]) -> BodyResponseStr
      [] data = JList(<< JNum(1) >>) -> BodyList

RetryableStatuses == { 429, 500, 502, 503, 504 }

Statuses == RetryableStatuses \cup { 200, 404 }

TransportErrors == { "ConnectTimeout", "ReadTimeout" }

NoHeaders == << >>

UpstreamHeaderSets == { NoHeaders, "x-request-id" :> "up-1" }

should_retry(status) == status \in { 429, 500, 502, 503, 504 }

MAX_RETRIES == 3

backoff_delays_no_jitter(max_retries) ==
    [ j \in 1..max_retries |-> 50 * (2 ^ (j - 1)) ]

backoff_delays_extra(max_retries) ==
    [ j \in 1..(max_retries + 1) |-> 50 * (2 ^ (j - 1)) + 5 * j ]

\* the delays backoff_delays yields, i = j - 1: base * 2**i + 0.05 * (i + 1)
backoff_delays(max_retries) ==
    [ j \in 1..max_retries |-> 50 * (2 ^ (j - 1)) + 5 * j ]

extract_usage(json_obj) ==
    IF ~IsDict(json_obj) THEN JNull
    ELSE LET u == DictGet(json_obj, "usage") IN
         IF Truthy(u) THEN u
         ELSE LET r == PyOr(DictGet(json_obj, "response"), EmptyDict) IN
              IF ~IsDict(r) THEN Raised          \* AttributeError: no .get
              ELSE LET ru == DictGet(r, "usage") IN
                   IF Truthy(ru) THEN ru
                   ELSE LET o == PyOr(DictGet(json_obj, "output"), EmptyDict) IN
                        IF ~IsDict(o) THEN Raised
                        ELSE DictGet(o, "usage")

HeaderGet(h, k) == IF k \in DOMAIN h THEN JStr(h[k]) ELSE JNull

make_usage_record(route, deployment, stream, status, usage, idempotency_key, hdrs) ==
    LET rec == [ route |-> route, deployment |-> deployment, stream |-> stream,
                 status |-> status, usage |-> PyOr(usage, EmptyDict),
                 idempotency_key |-> idempotency_key ]
    IN  IF DOMAIN hdrs # {}
        THEN rec @@ [ upstream_request_id |-> HeaderGet(hdrs, "x-request-id") ]
        ELSE rec

\* the line log_usage_record appends for a record
UsageLine(record) == << record, "\n" >>

NoAnswer == [ kind |-> "none", status_code |-> 0, body |-> "", detail |-> << "none" >> ]

NoUpstream == [ status_code |-> 0, body |-> "", headers |-> NoHeaders ]

\* an exception no handler catches: FastAPI answers 500
InternalServerError ==
    [ kind |-> "InternalServerError", status_code |-> 500,
      body |-> "Internal Server Error", detail |-> << "none" >> ]

HTTPException(status, detail) ==
    [ kind |-> "HTTPException", status_code |-> status, body |-> "", detail |-> detail ]

----------------------------------------------------------------------------
(* Upstream SSE streams.  A stream is a sequence of bytes; an ASCII byte   *)
(* is written as its character, "xC3" "xA9" are the two bytes of the      *)
(* UTF-8 encoding of U+00E9 and "xFF" is a byte no UTF-8 text contains.    *)

\* the five characters a data line starts with
DataPrefix ==
    << "d", "a", "t", "a", ":" >>

\* the terminator payload
DoneMarker ==
    << "[", "D", "O", "N", "E", "]" >>

\* {"type":"response.completed","response":{"usage":{"total_tokens":42}}}
EvResponseUsage ==
    << "{", "\"", "t", "y", "p", "e", "\"", ":", "\"", "r", "e", "s", "p",
       "o", "n", "s", "e", ".", "c", "o", "m", "p", "l", "e", "t", "e", "d",
       "\"", ",", "\"", "r", "e", "s", "p", "o", "n", "s", "e", "\"", ":",
       "{", "\"", "u", "s", "a", "g", "e", "\"", ":", "{", "\"", "t", "o",
       "t", "a", "l", "_", "t", "o", "k", "e", "n", "s", "\"", ":", "4", "2",
       "}", "}", "}" >>

\* {"type":"response.completed","usage":{"total_tokens":5}}
EvUsage ==
    << "{", "\"", "t", "y", "p", "e", "\"", ":", "\"", "r", "e", "s", "p",
       "o", "n", "s", "e", ".", "c", "o", "m", "p", "l", "e", "t", "e", "d",
       "\"", ",", "\"", "u", "s", "a", "g", "e", "\"", ":", "{", "\"", "t",
       "o", "t", "a", "l", "_", "t", "o", "k", "e", "n", "s", "\"", ":", "5",
       "}", "}" >>

\* {"type":"response.completed"}
EvNoUsage ==
    << "{", "\"", "t", "y", "p", "e", "\"", ":", "\"", "r", "e", "s", "p",
       "o", "n", "s", "e", ".", "c", "o", "m", "p", "l", "e", "t", "e", "d",
       "\"", "}" >>

\* {"type":"response.created","usage":{"total_tokens":9}}
EvCreated ==
    << "{", "\"", "t", "y", "p", "e", "\"", ":", "\"", "r", "e", "s", "p",
       "o", "n", "s", "e", ".", "c", "r", "e", "a", "t", "e", "d", "\"", ",",
       "\"", "u", "s", "a", "g", "e", "\"", ":", "{", "\"", "t", "o", "t",
       "a", "l", "_", "t", "o", "k", "e", "n", "s", "\"", ":", "9", "}",
       "}" >>

\* {"type":"response.completed","response":"x"}
EvResponseStr ==
    << "{", "\"", "t", "y", "p", "e", "\"", ":", "\"", "r", "e", "s", "p",
       "o", "n", "s", "e", ".", "c", "o", "m", "p", "l", "e", "t", "e", "d",
       "\"", ",", "\"", "r", "e", "s", "p", "o", "n", "s", "e", "\"", ":",
       "\"", "x", "\"", "}" >>

\* [1]
EvList ==
    << "[", "1", "]" >>

\* {oops
EvNotJson ==
    << "{", "o", "o", "p", "s" >>

\* {"type":"response.output_text.delta","delta":"
EvDeltaHead ==
    << "{", "\"", "t", "y", "p", "e", "\"", ":", "\"", "r", "e", "s", "p",
       "o", "n", "s", "e", ".", "o", "u", "t", "p", "u", "t", "_", "t", "e",
       "x", "t", ".", "d", "e", "l", "t", "a", "\"", ",", "\"", "d", "e",
       "l", "t", "a", "\"", ":", "\"" >>

\* "}
EvDeltaTail ==
    << "\"", "}" >>

\* a line that is no data line
EventLine ==
    << "e", "v", "e", "n", "t", ":", " ", "d", "o", "n", "e" >>

NL == << "\n" >>

BlankLine == << "\n", "\n" >>

\* one SSE data line carrying a payload
DataLine(payload) == DataPrefix \o << " " >> \o payload

\* the stream of the spec's example: a response.completed event carrying
\* response.usage, then the terminator
StreamCompleted ==
    DataLine(EvResponseUsage) \o BlankLine \o DataLine(DoneMarker) \o BlankLine

\* an event line, a response.completed event without any usage, the terminator
StreamSurrogate ==
    EventLine \o NL \o DataLine(EvNoUsage) \o BlankLine
        \o DataLine(DoneMarker) \o BlankLine

\* an event of another type that carries a usage field
StreamOtherType == DataLine(EvCreated) \o BlankLine

\* a payload that is no JSON and holds an undecodable byte, a payload that is
\* no JSON object, then a response.completed event carrying usage
StreamMalformed ==
    DataLine(EvNotJson \o << "xFF" >>) \o BlankLine \o DataLine(EvList) \o BlankLine
        \o DataLine(EvUsage) \o BlankLine

\* a response.completed event whose response field is a string
StreamBadShape ==
    DataLine(EvResponseStr) \o BlankLine \o DataLine(DoneMarker) \o BlankLine

\* a delta event whose text holds the two-byte character U+00E9
StreamMultiByte ==
    DataLine(EvDeltaHead \o << "xC3", "xA9" >> \o EvDeltaTail) \o BlankLine

\* a response.completed event carrying usage whose line is ended but not
\* followed by a blank line
StreamUnterminated == DataLine(EvUsage) \o NL

\* a complete response.completed event, then a second one after which the
\* upstream closes the stream at once
StreamCutShort == DataLine(EvResponseUsage) \o BlankLine \o DataLine(EvUsage)

Streams == { StreamCompleted, StreamSurrogate, StreamOtherType, StreamMalformed,
             StreamBadShape, StreamMultiByte }

CompletedType == JStr("response.completed")

\* json.loads(payload) for the payloads above; every other text over these
\* characters that reaches it is no JSON and raises
json_loads(payload) ==
    CASE payload = EvResponseUsage ->
            JObj([type |-> CompletedType,
                  response |-> JObj([usage |-> UsageTotal(42)])])
      [] payload = EvUsage ->
            JObj([type |-> CompletedType, usage |-> UsageTotal(5)])
      [] payload = EvNoUsage ->
            JObj([type |-> CompletedType])
      [] payload = EvCreated ->
            JObj([type |-> JStr("response.created"), usage |-> UsageTotal(9)])
      [] payload = EvResponseStr ->
            JObj([type |-> CompletedType, response |-> JStr("x")])
      [] payload = EvList ->
            JList(<< JNum(1) >>)
      [] payload = EvDeltaHead \o << "U+00E9" >> \o EvDeltaTail ->
            JObj([type |-> JStr("response.output_text.delta"), delta |-> JStr("U+00E9")])
      [] payload = EvDeltaHead \o EvDeltaTail ->
            JObj([type |-> JStr("response.output_text.delta"), delta |-> JStr("")])
      [] OTHER -> Raised

\* chunk.decode("utf-8", errors="ignore"): a byte sequence that is no complete
\* UTF-8 character within this chunk is dropped
decode_ignore(bytes) ==
    LET char(i) ==
            IF bytes[i] = "xC3"
            THEN IF i < Len(bytes) /\ bytes[i + 1] = "xA9" THEN "U+00E9" ELSE "dropped"
            ELSE IF bytes[i] \in { "xA9", "xFF" } THEN "dropped" ELSE bytes[i]
        kept(c) == c # "dropped"
    IN  SelectSeq([ i \in 1..Len(bytes) |-> char(i) ], kept)

\* the positions at which "\n\n" starts in text
SeparatorPositions(text) ==
    { i \in 1..(Len(text) - 1) : text[i] = "\n" /\ text[i + 1] = "\n" }

\* "\n\n" in text
HasSeparator(text) == SeparatorPositions(text) # {}

FirstOf(S) == CHOOSE i \in S : \A j \in S : i <= j

\* text.split("\n\n", 1)
split_once(text) ==
    LET i == FirstOf(SeparatorPositions(text))
    IN  [ block |-> SubSeq(text, 1, i - 1), rest |-> SubSeq(text, i + 2, Len(text)) ]

RECURSIVE splitlines(_)
\* block.splitlines(); "\n" is the only line boundary among the characters
splitlines(text) ==
    IF text = << >> THEN << >>
    ELSE LET P == { i \in 1..Len(text) : text[i] = "\n" }
         IN  IF P = {} THEN << text >>
             ELSE << SubSeq(text, 1, FirstOf(P) - 1) >>
                    \o splitlines(SubSeq(text, FirstOf(P) + 1, Len(text)))

Whitespace == { " ", "\n" }

RECURSIVE lstrip(_)
lstrip(text) ==
    IF text # << >> /\ Head(text) \in Whitespace THEN lstrip(Tail(text)) ELSE text

RECURSIVE rstrip(_)
rstrip(text) ==
    IF text # << >> /\ text[Len(text)] \in Whitespace
    THEN rstrip(SubSeq(text, 1, Len(text) - 1))
    ELSE text

\* text.strip()
strip(text) == rstrip(lstrip(text))

\* line.startswith("data:")
startswith_data(line) ==
    Len(line) >= Len(DataPrefix) /\ SubSeq(line, 1, Len(DataPrefix)) = DataPrefix

\* (evt.get("response") or {}).get("usage") or evt.get("usage")
\*     or {"usage_counter": usage_counter}
completed_usage(evt, counter) ==
    LET r == PyOr(DictGet(evt, "response"), EmptyDict)
    IN  IF ~IsDict(r) THEN Raised                \* AttributeError: no .get
        ELSE PyOr(PyOr(DictGet(r, "usage"), DictGet(evt, "usage")),
                  JObj([usage_counter |-> JNum(counter)]))

\* the body of "for line in block.splitlines()" for one line: the new
\* usage_holder, or Raised
parse_line(rawline, holder, counter) ==
    LET line == strip(rawline)
        payload == strip(SubSeq(line, Len(DataPrefix) + 1, Len(line)))
        evt == json_loads(payload)
    IN  IF ~startswith_data(line) THEN holder
        ELSE IF payload = << >> \/ payload = DoneMarker THEN holder
        ELSE IF evt = Raised THEN holder
        ELSE IF IsDict(evt) /\ DictGet(evt, "type") = CompletedType
             THEN completed_usage(evt, counter)
             ELSE holder

RECURSIVE parse_lines(_, _, _)
parse_lines(lines, holder, counter) ==
    IF lines = << >> THEN holder
    ELSE LET h == parse_line(Head(lines), holder, counter)
         IN  IF h = Raised THEN Raised ELSE parse_lines(Tail(lines), h, counter)

RECURSIVE parse_buffer_residue(_, _, _, _)
parse_buffer_residue(buf, holder, done, counter) ==
    IF ~HasSeparator(buf)
    THEN LET h == parse_lines(splitlines(buf), holder, counter)
         IN  [ text_buf |-> buf, usage_holder |-> IF h = Raised THEN holder ELSE h,
               blocks |-> done, raised |-> FALSE ]
    ELSE LET sp == split_once(buf)
             h == parse_lines(splitlines(sp.block), holder, counter)
         IN  IF h = Raised
             THEN [ text_buf |-> sp.rest, usage_holder |-> holder,
                    blocks |-> Append(done, sp.block), raised |-> TRUE ]
             ELSE parse_buffer_residue(sp.rest, h, Append(done, sp.block), counter)

RECURSIVE parse_buffer(_, _, _, _)
\* while "\n\n" in text_buf: ...  The state of the parser after the loop, or
\* at the exception that left it
parse_buffer(buf, holder, done, counter) ==
    IF ~HasSeparator(buf)
    THEN [ text_buf |-> buf, usage_holder |-> holder, blocks |-> done, raised |-> FALSE ]
    ELSE LET sp == split_once(buf)
             h == parse_lines(splitlines(sp.block), holder, counter)
         IN  IF h = Raised
             THEN [ text_buf |-> sp.rest, usage_holder |-> holder,
                    blocks |-> Append(done, sp.block), raised |-> TRUE ]
             ELSE parse_buffer(sp.rest, h, Append(done, sp.block), counter)

\* the parser's work on one chunk, lines 304-324
feed_parser(buf, holder, done, counter, bytes) ==
    parse_buffer(buf \o decode_ignore(bytes), holder, done, counter)

\* the response forward_nonstream returns for a non-retryable upstream
\* response: JSONResponse of the parsed body, or the raw text
nonstream_answer(st, body) ==
    LET parsed == r_json(body)
        data == IF parsed = Raised THEN JNull ELSE parsed
    IN  IF data # JNull
        THEN [ kind |-> "JSONResponse", status_code |-> st,
               body |-> JSONResponse_render(data), detail |-> << "none" >> ]
        ELSE [ kind |-> "PlainTextResponse", status_code |-> st,
               body |-> body, detail |-> << "none" >> ]

----------------------------------------------------------------------------
(* Inbound requests and the route handler.  A request body is the value    *)
(* request.json() returns: dicts keep their items in insertion order, as   *)
(* Python dicts do, so that serialisations can depend on it.               *)

\* a dict, as the sequence of its (key, value) items in insertion order
ODict(items) == << "odict", items >>

JBool(b) == << "bool", b >>

\* isinstance(v, dict) for a request value
IsODict(v) == v[1] = "odict"

OKeys(d) == { d[2][i][1] : i \in DOMAIN d[2] }

\* d.get(k)
OGet(d, k) ==
    IF k \in OKeys(d)
    THEN d[2][CHOOSE i \in DOMAIN d[2] : d[2][i][1] = k][2]
    ELSE JNull

\* d[k] = v: an existing key keeps its place, a new one goes last
OSet(d, k, v) ==
    IF k \in OKeys(d)
    THEN ODict([ i \in DOMAIN d[2] |-> IF d[2][i][1] = k THEN << k, v >> ELSE d[2][i] ])
    ELSE ODict(Append(d[2], << k, v >>))

\* the keys the modelled bodies use, in the order Python sorts str keys
KeyOrder ==
    << "content", "messages", "model", "response_format", "role", "stream",
       "strict", "temperature", "tool_choice", "tools", "type", "user" >>

\* sorted(d.items()), what json.dumps(sort_keys=True) iterates over
sorted_items(items) ==
    LET present == SelectSeq(KeyOrder, LAMBDA k : \E i \in DOMAIN items : items[i][1] = k)
    IN  [ j \in DOMAIN present |->
            items[CHOOSE i \in DOMAIN items : items[i][1] = present[j]] ]

\* json.dumps(v, sort_keys=..., separators=(",", ":")) as its sequence of
\* tokens; a dict is written in the order of its items unless sort_keys
RECURSIVE json_dumps(_, _), dumps_list(_, _), dumps_items(_, _)
json_dumps(v, sort_keys) ==
    CASE v[1] = "null"  -> << "null" >>
      [] v[1] = "bool"  -> << IF v[2] THEN "true" ELSE "false" >>
      [] v[1] = "num"   -> << ToString(v[2]) >>
      [] v[1] = "str"   -> << "\"", v[2], "\"" >>
      [] v[1] = "list"  -> << "[" >> \o dumps_list(v[2], sort_keys) \o << "]" >>
      [] v[1] = "odict" ->
            << "{" >>
            \o dumps_items(IF sort_keys THEN sorted_items(v[2]) ELSE v[2], sort_keys)
            \o << "}" >>

dumps_list(s, sort_keys) ==
    IF s = << >> THEN << >>
    ELSE json_dumps(Head(s), sort_keys)
         \o (IF Tail(s) = << >> THEN << >> ELSE << "," >>)
         \o dumps_list(Tail(s), sort_keys)

dumps_items(items, sort_keys) ==
    IF items = << >> THEN << >>
    ELSE << "\"", Head(items)[1], "\"", ":" >>
         \o json_dumps(Head(items)[2], sort_keys)
         \o (IF Tail(items) = << >> THEN << >> ELSE << "," >>)
         \o dumps_items(Tail(items), sort_keys)

\* the fields gen_idempotency_key reads, in the order of its tuple
IdempotencyFields ==
    << "model", "messages", "tools", "tool_choice", "response_format", "temperature" >>

\* {k: body.get(k) for k in (...)}
idempotency_projection(body) ==
    ODict([ i \in DOMAIN IdempotencyFields |->
              << IdempotencyFields[i], OGet(body, IdempotencyFields[i]) >> ])

gen_idempotency_key_unsorted(body) ==
    << "hexdigest", json_dumps(idempotency_projection(body), FALSE) >>

\* sha256(canonical).hexdigest()[:32]: a non-empty str that is a function of
\* the canonical text (the digest itself is not computed)
gen_idempotency_key(body) ==
    << "hexdigest", json_dumps(idempotency_projection(body), TRUE) >>

\* the model map of lines 36-40
MODEL_MAP ==
    [ m \in { "gpt-5-nano", "gpt-4.1", "gpt-4o-mini" } |->
        CASE m = "gpt-5-nano"  -> "gpt-5-nano"
          [] m = "gpt-4.1"     -> "orchestration-deployment"
          [] m = "gpt-4o-mini" -> "summarization-deployment" ]

UPSTREAM_API_KEY == "azure-api-key"

UPSTREAM_ENDPOINT == "https://account.openai.azure.com"

UPSTREAM_API_VERSION == "2024-12-01-preview"

\* the result of a call that returns a value or raises
Return(v) == [ raised |-> FALSE, value |-> v, exc |-> NoAnswer ]

Raise(e) == [ raised |-> TRUE, value |-> JNull, exc |-> e ]

resolve_deployment_ignoring_default(model_name) ==
    IF model_name[1] \in { "list", "odict" }
    THEN Raise(InternalServerError)
    ELSE LET dep == IF model_name[1] = "str" /\ model_name[2] \in DOMAIN MODEL_MAP
                    THEN JStr(MODEL_MAP[model_name[2]])
                    ELSE JNull
         IN  IF ~Truthy(dep)
             THEN Raise(HTTPException(400,
                     << "No deployment mapped for model", model_name, MODEL_MAP >>))
             ELSE Return(dep)

\* MODEL_MAP.get raises TypeError on an unhashable model; a model that is
\* not mapped gets the default; no default either is a 400 whose detail
\* holds the model and the map
resolve_deployment_from_model(model_name) ==
    IF model_name[1] \in { "list", "odict" }
    THEN Raise(InternalServerError)
    ELSE LET dep == IF model_name[1] = "str" /\ model_name[2] \in DOMAIN MODEL_MAP
                    THEN JStr(MODEL_MAP[model_name[2]])
                    ELSE JNull
             dep2 == IF ~Truthy(dep) THEN JStr(DEFAULT_DEPLOYMENT) ELSE dep
         IN  IF ~Truthy(dep2)
             THEN Raise(HTTPException(400,
                     << "No deployment mapped for model", model_name, MODEL_MAP >>))
             ELSE Return(dep2)

azure_responses_url(deployment) ==
    << UPSTREAM_ENDPOINT, "/openai/deployments/", deployment,
       "/responses?api-version=", UPSTREAM_API_VERSION >>

build_upstream_url(deployment) ==
    << UPSTREAM_ENDPOINT, "/openai/deployments/", deployment,
       "/chat/completions?api-version=", UPSTREAM_API_VERSION >>

require_auth_wrong_only(request) ==
    \/ PROXY_TOKEN = ""
    \/ "X-Proxy-Token" \notin DOMAIN request.headers
    \/ HeaderGet(request.headers, "X-Proxy-Token") = JStr(PROXY_TOKEN)

\* TRUE when require_auth returns, FALSE when it raises the 401
require_auth(request) ==
    \/ PROXY_TOKEN = ""
    \/ HeaderGet(request.headers, "X-Proxy-Token") = JStr(PROXY_TOKEN)

JsonObjectFormat == ODict(<< << "type", JStr("json_object") >> >>)

force_json_always(body) ==
    IF FORCE_JSON_RESPONSE
    THEN OSet(body, "response_format", JsonObjectFormat)
    ELSE body

force_json_alone(body) ==
    IF FORCE_JSON_RESPONSE
    THEN LET rf == OGet(body, "response_format") IN
         IF \/ ~IsODict(rf)
            \/ OGet(rf, "type") \notin { JStr("json_object"), JStr("json_schema") }
         THEN ODict(<< << "response_format", JsonObjectFormat >> >>)
         ELSE body
    ELSE body

maybe_force_json_response(body) ==
    IF FORCE_JSON_RESPONSE
    THEN LET rf == OGet(body, "response_format") IN
         IF \/ ~IsODict(rf)
            \/ OGet(rf, "type") \notin { JStr("json_object"), JStr("json_schema") }
         THEN OSet(body, "response_format", JsonObjectFormat)
         ELSE body
    ELSE body

\* log_req raises TypeError when it takes len() of a messages value that
\* has none (LOG_PROMPTS is off)
log_req_raises(body) ==
    /\ "messages" \in OKeys(body)
    /\ OGet(body, "messages")[1] \in { "null", "num", "bool" }

upstream_headers_of(request, idemp) ==
    LET h == ("api-key" :> JStr(UPSTREAM_API_KEY))
             @@ ("Content-Type" :> JStr("application/json"))
        h2 == IF Truthy(idemp) THEN h @@ ("Idempotency-Key" :> idemp) ELSE h
    IN  IF Truthy(HeaderGet(request.headers, "X-Request-Id"))
        THEN h2 @@ ("X-Request-Id" :> HeaderGet(request.headers, "X-Request-Id"))
        ELSE h2

\* a body that is not JSON: request.json() raises
InvalidJson == << "invalid" >>

NoRequest ==
    [ route |-> "", deployment |-> JNull, idempotency_key |-> JNull,
      url |-> << >>, headers |-> << >>, body |-> JNull, stream |-> FALSE ]

\* the handler raised: FastAPI answers with exc, no forwarder is called
Refused(exc, gen) ==
    [ raised |-> TRUE, exc |-> exc, req |-> NoRequest, gen_called |-> gen ]

\* the handler called a forwarder with these arguments
Forwarded(r, gen) ==
    [ raised |-> FALSE, exc |-> NoAnswer, req |-> r, gen_called |-> gen ]

generated_key_always(request, body) ==
    [ key |-> gen_idempotency_key(body), gen_called |-> TRUE ]

\* request.headers.get("Idempotency-Key") or gen_idempotency_key(body): the
\* right operand is evaluated only when the left one is None or ""
choose_idempotency_key(request, body) ==
    LET given == HeaderGet(request.headers, "Idempotency-Key") IN
    IF Truthy(given)
    THEN [ key |-> given, gen_called |-> FALSE ]
    ELSE [ key |-> gen_idempotency_key(body), gen_called |-> TRUE ]

path_deployment_first(model, deployment) ==
    IF deployment # JNull THEN Return(deployment)
    ELSE IF Truthy(model) THEN resolve_deployment_from_model(model)
    ELSE Raise(HTTPException(400, << "Missing 'model' (or explicit deployment)" >>))

\* lines 374-381: the model decides whenever it is truthy; the inner test of
\* the elif branch cannot succeed, model being falsy there
choose_deployment(model, deployment) ==
    IF Truthy(model) THEN resolve_deployment_from_model(model)
    ELSE IF deployment = JNull
    THEN Raise(HTTPException(400, << "Missing 'model' (or explicit deployment)" >>))
    ELSE Return(deployment)

openai_v1_chat_completions_general(request, useforce, deployment, endpoint, routelabel) ==
    IF ~OPENAI_COMPAT_ENABLED
    THEN Refused(HTTPException(404, << "OpenAI-compatible mode disabled" >>), FALSE)
    ELSE IF ~require_auth(request)
    THEN Refused(HTTPException(401, << "Unauthorized" >>), FALSE)
    ELSE IF request.body = InvalidJson
    THEN Refused(HTTPException(400, << "Invalid JSON body" >>), FALSE)
    ELSE IF ~IsODict(request.body)
    THEN Refused(InternalServerError, FALSE)      \* AttributeError: no .get
    ELSE
    LET resolved == choose_deployment(OGet(request.body, "model"), deployment) IN
    IF resolved.raised THEN Refused(resolved.exc, FALSE)
    ELSE
    LET body == IF useforce /\ endpoint = "chat"
                THEN maybe_force_json_response(request.body)
                ELSE request.body
        idem == choose_idempotency_key(request, body)
        headers == upstream_headers_of(request, idem.key)
        url == IF endpoint = "responses"
               THEN azure_responses_url(resolved.value)
               ELSE build_upstream_url(resolved.value)
    IN  IF log_req_raises(body) THEN Refused(InternalServerError, idem.gen_called)
        ELSE Forwarded([ route |-> routelabel, deployment |-> resolved.value,
                         idempotency_key |-> idem.key, url |-> url,
                         headers |-> headers, body |-> body,
                         stream |-> Truthy(OGet(body, "stream")) ],
                       idem.gen_called)

\* the three handlers registered on the forwarding paths and the arguments
\* each passes on (/chat/completions and /responses are aliases of the two
\* /v1 paths)
Routes ==
    { [ path |-> "/openai/deployments/{deployment}/chat/completions",
        useforce |-> TRUE, deployment |-> JStr("path-deployment"),
        endpoint |-> "chat", routelabel |-> "chat_completions" ],
      [ path |-> "/v1/chat/completions",
        useforce |-> TRUE, deployment |-> JNull,
        endpoint |-> "chat", routelabel |-> "openai_v1_chat_completions" ],
      [ path |-> "/v1/responses",
        useforce |-> FALSE, deployment |-> JNull,
        endpoint |-> "responses", routelabel |-> "openai_v1_responses" ] }

\* [{"role":"user","content":"hi"}]
Messages ==
    JList(<< ODict(<< << "role", JStr("user") >>, << "content", JStr("hi") >> >>) >>)

JsonSchemaFormat ==
    ODict(<< << "type", JStr("json_schema") >>, << "strict", JBool(TRUE) >> >>)

\* the bodies clients send
InboundBodies ==
    { ODict(<< << "model", JStr("gpt-4.1") >>, << "messages", Messages >> >>),
      ODict(<< << "model", JStr("gpt-4.1") >>, << "messages", Messages >>,
               << "stream", JBool(TRUE) >> >>),
      ODict(<< << "model", JStr("my-model") >>, << "messages", Messages >>,
               << "user", JStr("u1") >> >>),
      ODict(<< << "messages", Messages >>, << "response_format", JsonSchemaFormat >> >>),
      ODict(<< << "model", JStr("") >>, << "messages", Messages >>,
               << "response_format", ODict(<< << "type", JStr("text") >> >>) >>,
               << "stream", JBool(TRUE) >> >>),
      ODict(<< << "model", JStr("gpt-4o-mini") >>,
               << "response_format", JStr("json") >>, << "messages", Messages >>,
               << "temperature", JNum(0) >> >>),
      ODict(<< << "model", JNull >>, << "stream", JBool(TRUE) >>,
               << "response_format", JsonObjectFormat >>, << "user", JStr("u1") >> >>),
      ODict(<< << "model", JStr("my-model") >>,
               << "response_format", JsonSchemaFormat >>, << "messages", Messages >>,
               << "stream", JBool(TRUE) >> >>),
      ODict(<< << "model", JStr("gpt-4.1") >>, << "messages", JNull >> >>),
      ODict(<< << "model", JList(<< JStr("gpt-4.1") >>) >> >>),
      JList(<< JNum(1) >>),
      InvalidJson }

\* the secret the proxy is configured with, when it is configured with one
Secret == "s3cret"

\* the headers clients send: no token, the right one, a wrong one; no
\* idempotency key, an empty one, one of the client's own
InboundHeaders ==
    { t @@ k :
        t \in { << >>, "X-Proxy-Token" :> Secret, "X-Proxy-Token" :> "guess" },
        k \in { << >>, "Idempotency-Key" :> "", "Idempotency-Key" :> "client-key" } }

\* client.post(url, headers=headers, json=body) and
\* client.stream("POST", url, headers=headers, json=body)
upstream_call_rekeyed(r) ==
    [ url |-> r.url,
      headers |-> [ r.headers EXCEPT !["Idempotency-Key"] = << "uuid4", Len(calls) >> ],
      json |-> r.body ]

\* client.post(url, headers=headers, json=body) and client.stream("POST",
\* url, headers=headers, json=body): the arguments of the forwarder as they
\* were passed in
upstream_call(r) == [ url |-> r.url, headers |-> r.headers, json |-> r.body ]

\* the route functions chat_completions, openai_v1_chat_completions and
\* openai_v1_responses: each calls the general handler with its arguments
route_handler(request) ==
    openai_v1_chat_completions_general(request, request.route.useforce,
        request.route.deployment, request.route.endpoint, request.route.routelabel)

NoInbound == [ route |-> CHOOSE rt \in Routes : rt.path = "/v1/responses",
               headers |-> << >>, body |-> JNull ]

\* the requests behind which every upstream behaviour is explored
SampleRequests ==
    { [ route |-> CHOOSE rt \in Routes : rt.path = "/v1/chat/completions",
        headers |-> "Idempotency-Key" :> "key-1",
        body |-> b ] :
      b \in { ODict(<< << "model", JStr("gpt-4o-mini") >>, << "messages", Messages >> >>),
              ODict(<< << "model", JStr("gpt-4o-mini") >>, << "messages", Messages >>,
                       << "stream", JBool(TRUE) >> >>) } }

\* : keep-alive comment, the whole of a plain stream
StreamComment == << ":" >> \o BlankLine

\* the upstream behaviours explored in each scenario
UpstreamStatuses == IF scenario = "handler" THEN { 200, 503 } ELSE Statuses

UpstreamBodies == IF scenario = "handler" THEN { BodyUsage, BodyText } ELSE Bodies

UpstreamErrors == IF scenario = "handler" THEN { } ELSE TransportErrors

UpstreamHeaders == IF scenario = "handler" THEN { NoHeaders } ELSE UpstreamHeaderSets

UpstreamStreams ==
    CASE scenario = "handler" -> { StreamComment }
      [] scenario = "parser" -> { StreamUnterminated, StreamCutShort }
      [] OTHER -> Streams

\* no request is under way in the forwarders
ForwarderIdle ==
    /\ mode = "none"
    /\ usage_log = << >>
    /\ records = << >>
    /\ sink_raised = FALSE
    /\ delays = << >>
    /\ slept = << >>
    /\ outcomes = << >>
    /\ last_exc = << "none" >>
    /\ upstream = NoUpstream
    /\ client = NoAnswer
    /\ calls = << >>
    /\ conn_open = FALSE
    /\ wire = << >>
    /\ sent = << >>
    /\ opens = 0
    /\ chunk = << >>
    /\ relayed = << >>
    /\ fed_bytes = << >>
    /\ text_buf = << >>
    /\ usage_holder = JNull
    /\ usage_counter = 0
    /\ status_code = 0
    /\ upstream_headers = NoHeaders
    /\ blocks = << >>
    /\ stream_end = "open"

\* the document service is not part of the exploration
DocsIdle ==
    /\ SYNC_FRAGMENT_GENERATION = FALSE
    /\ documents = << >>
    /\ fragments = {}
    /\ db_clock = 0
    /\ gen_task = << >>
    /\ mutations = << >>
    /\ doc_result = << >>

\* no key is computed and no request is in log_usage_record
AsideIdle ==
    /\ DocsIdle
    /\ key_pair = << >>
    /\ key_out = << >>
    /\ lk_pc = << >>
    /\ lock_owner = 0
    /\ awaits = << >>
    /\ chunk_args = << >>
    /\ chunk_out = << >>

\* a request the route handler has just handed to a forwarder, under the
\* default configuration
Init ==
    /\ OPENAI_COMPAT_ENABLED = TRUE
    /\ PROXY_TOKEN = ""
    /\ DEFAULT_DEPLOYMENT = "summarization-deployment"
    /\ FORCE_JSON_RESPONSE = FALSE
    /\ scenario = "forwarder"
    /\ USAGE_LOG_PATH \in { "", "usage.jsonl" }
    /\ inbound \in SampleRequests
    /\ req = route_handler(inbound).req
    /\ gen_called = route_handler(inbound).gen_called
    /\ pc = "start"
    /\ AsideIdle
    /\ ForwarderIdle

\* a request is about to arrive, under any configuration
InitRoute ==
    /\ OPENAI_COMPAT_ENABLED \in BOOLEAN
    /\ PROXY_TOKEN \in { "", Secret }
    /\ DEFAULT_DEPLOYMENT \in { "", "summarization-deployment" }
    /\ FORCE_JSON_RESPONSE \in BOOLEAN
    /\ scenario = "handler"
    /\ USAGE_LOG_PATH = ""
    /\ inbound = NoInbound
    /\ req = NoRequest
    /\ gen_called = FALSE
    /\ pc = "request"
    /\ AsideIdle
    /\ ForwarderIdle

\* a request arrives on one of the forwarding routes and its handler runs up
\* to the call of a forwarder, or to the exception it raises
RouteRequest ==
    /\ pc = "request"
    /\ \E rt \in Routes, hs \in InboundHeaders, b \in InboundBodies :
         LET request == [ route |-> rt, headers |-> hs, body |-> b ]
             out == route_handler(request)
         IN  /\ inbound' = request
             /\ gen_called' = out.gen_called
             /\ req' = out.req
             /\ IF out.raised
                THEN /\ client' = out.exc
                     /\ pc' = "done"
                ELSE /\ client' = client
                     /\ pc' = "start"
    /\ UNCHANGED << cfgVars, asideVars, calls, conn_open, mode, USAGE_LOG_PATH,
                    usage_log,
                    records, sink_raised, nsVars, upstream, stVars >>

after_disconnect_reading == "st_read"

\* the exception raised in _gen at the await or the yield it is suspended
\* at leaves _gen: nothing after the loop runs
after_disconnect == "done"


\* forward_nonstream is called: the list of delays of the for loop is built
NsStart ==
    /\ pc = "start"
    /\ ~req.stream
    /\ mode' = "nonstream"
    /\ delays' = << 0 >> \o backoff_delays(MAX_RETRIES)
    /\ pc' = "ns_iter"
    /\ UNCHANGED << handlerVars, calls, conn_open, USAGE_LOG_PATH, usage_log, records, sink_raised, slept,
                    outcomes, last_exc, upstream, client, req, stVars >>

\* if delay: await asyncio.sleep(delay)
NsSleep ==
    /\ pc = "ns_iter"
    /\ Head(delays) # 0
    /\ slept' = Append(slept, Head(delays))
    /\ pc' = "ns_post"
    /\ UNCHANGED << handlerVars, calls, conn_open, mode, USAGE_LOG_PATH, usage_log, records, sink_raised, delays,
                    outcomes, last_exc, upstream, client, req, stVars >>

NsNextIteration_first_cause(exc) ==
    /\ last_exc' = IF last_exc = << "none" >> THEN exc ELSE last_exc
    /\ delays' = Tail(delays)
    /\ IF Tail(delays) = << >>
       THEN /\ pc' = "done"
            /\ client' = HTTPException(502, last_exc')
       ELSE /\ pc' = "ns_iter"
            /\ client' = client

\* the end of one failed iteration: the next one, or the raise after the loop
NsNextIteration(exc) ==
    /\ last_exc' = exc
    /\ delays' = Tail(delays)
    /\ IF Tail(delays) = << >>
       THEN /\ pc' = "done"
            /\ client' = HTTPException(502, exc)
       ELSE /\ pc' = "ns_iter"
            /\ client' = client

\* r = await client.post(...) and everything up to the end of the iteration
NsAttempt ==
    /\ \/ pc = "ns_post"
       \/ pc = "ns_iter" /\ Head(delays) = 0
    /\ calls' = Append(calls, upstream_call(req))
    /\ \/ \E e \in UpstreamErrors :
            /\ outcomes' = Append(outcomes, << "http_error", e >>)
            /\ NsNextIteration(<< "http_error", e >>)
            /\ UNCHANGED << upstream, records, usage_log, sink_raised >>
       \/ \E st \in UpstreamStatuses, body \in UpstreamBodies, hdrs \in UpstreamHeaders :
            /\ outcomes' = Append(outcomes, << "status", st >>)
            /\ IF should_retry(st)
               THEN /\ body = BodyText /\ hdrs = NoHeaders  \* neither is read
                    /\ upstream' = [ status_code |-> st, body |-> body, headers |-> hdrs ]
                    /\ NsNextIteration(<< "status", st >>)
                    /\ UNCHANGED << records, usage_log, sink_raised >>
               ELSE /\ upstream' = [ status_code |-> st, body |-> body, headers |-> hdrs ]
                    /\ LET parsed == r_json(body)
                           data == IF parsed = Raised THEN JNull ELSE parsed
                           usage == extract_usage(PyOr(data, EmptyDict))
                           record == make_usage_record(req.route, req.deployment, FALSE,
                                        st, usage, req.idempotency_key, hdrs)
                           answer == nonstream_answer(st, body)
                       IN  /\ pc' = "done"
                           /\ UNCHANGED << delays, last_exc >>
                           /\ IF usage = Raised
                              THEN /\ client' = InternalServerError
                                   /\ UNCHANGED << records, usage_log, sink_raised >>
                              ELSE /\ records' = Append(records, record)
                                   /\ IF USAGE_LOG_PATH = ""
                                      THEN /\ client' = answer
                                           /\ UNCHANGED << usage_log, sink_raised >>
                                      ELSE \/ /\ usage_log' = Append(usage_log, UsageLine(record))
                                              /\ client' = answer
                                              /\ UNCHANGED sink_raised
                                           \/ /\ sink_raised' = TRUE
                                              /\ client' = InternalServerError
                                              /\ UNCHANGED usage_log
    /\ UNCHANGED << handlerVars, conn_open, mode, USAGE_LOG_PATH, slept, req, stVars >>

\* the status and headers the upstream answers a stream request with
StreamConnects ==
    { [ status_code |-> 200, headers |-> "x-request-id" :> "up-1" ],
      [ status_code |-> 429, headers |-> NoHeaders ] }

UpstreamConnects ==
    CASE scenario = "handler" -> { [ status_code |-> 200, headers |-> NoHeaders ],
                                   [ status_code |-> 404, headers |-> NoHeaders ] }
      [] scenario = "parser" -> { [ status_code |-> 200, headers |-> NoHeaders ] }
      [] OTHER -> StreamConnects

\* parse_responses_usage=True, the argument of the only call
parse_responses_usage == TRUE

relay_chunk_decoded(bytes) == decode_ignore(bytes)

\* yield chunk
relay_chunk(bytes) == bytes

after_stream_error_retry == "st_connect"

\* no handler around client.stream or aiter_bytes: the exception leaves _gen
after_stream_error == "done"

\* forward_stream_with_usage is called and returns the StreamingResponse,
\* whose status code is the default 200; _gen has not started yet
StStart ==
    /\ pc = "start"
    /\ req.stream
    /\ mode' = "stream"
    /\ \E s \in UpstreamStreams : wire' = s
    /\ client' = [ kind |-> "StreamingResponse", status_code |-> 200, body |-> "",
                   detail |-> << "none" >> ]
    /\ pc' = "st_connect"
    /\ UNCHANGED << handlerVars, calls, conn_open, USAGE_LOG_PATH, usage_log, records, sink_raised, nsVars,
                    upstream, req, sent, opens, chunk, relayed, fed_bytes,
                    text_buf, usage_holder, usage_counter, status_code,
                    upstream_headers, blocks, stream_end >>

\* async with client.stream("POST", ...) as r: the connection is opened and
\* the status and headers are captured, or the connect fails
StConnect ==
    /\ pc = "st_connect"
    /\ opens' = opens + 1
    /\ calls' = Append(calls, upstream_call(req))
    /\ \/ \E r \in UpstreamConnects :
            /\ status_code' = r.status_code
            /\ upstream_headers' = r.headers
            /\ upstream' = [ status_code |-> r.status_code, body |-> "",
                             headers |-> r.headers ]
            /\ conn_open' = TRUE
            /\ pc' = "st_read"
            /\ UNCHANGED stream_end
       \/ /\ stream_end' = "error"
          /\ pc' = after_stream_error
          /\ UNCHANGED << status_code, upstream_headers, upstream, conn_open >>
    /\ UNCHANGED << handlerVars, mode, USAGE_LOG_PATH, usage_log, records, sink_raised, nsVars,
                    client, req, wire, sent, chunk, relayed, fed_bytes,
                    text_buf, usage_holder, usage_counter, blocks >>

\* async for chunk in r.aiter_bytes(): the next chunk, of any length, and
\* usage_counter += len(chunk)
StRead ==
    /\ pc = "st_read"
    /\ wire # << >>
    /\ \E n \in 1..Len(wire) :
            /\ chunk' = SubSeq(wire, 1, n)
            /\ wire' = SubSeq(wire, n + 1, Len(wire))
    /\ sent' = sent \o chunk'
    /\ usage_counter' = usage_counter + Len(chunk')
    /\ pc' = "st_yield"
    /\ UNCHANGED << handlerVars, calls, conn_open, mode, USAGE_LOG_PATH, usage_log, records, sink_raised, nsVars,
                    upstream, client, req, opens, relayed, fed_bytes, text_buf,
                    usage_holder, status_code, upstream_headers, blocks,
                    stream_end >>

\* aiter_bytes raises (read error or read timeout)
StReadError ==
    /\ pc = "st_read"
    /\ stream_end' = "error"
    /\ conn_open' = FALSE
    /\ pc' = after_stream_error
    /\ UNCHANGED << handlerVars, calls, mode, USAGE_LOG_PATH, usage_log, records, sink_raised, nsVars,
                    upstream, client, req, wire, sent, opens, chunk, relayed, fed_bytes, text_buf, usage_holder, usage_counter,
                    status_code, upstream_headers, blocks >>

\* yield chunk
StYield ==
    /\ pc = "st_yield"
    /\ relayed' = relayed \o relay_chunk(chunk)
    /\ pc' = IF parse_responses_usage THEN "st_parse" ELSE "st_read"
    /\ UNCHANGED << handlerVars, calls, conn_open, mode, USAGE_LOG_PATH, usage_log, records, sink_raised, nsVars,
                    upstream, client, req, wire, sent, opens, chunk, fed_bytes, text_buf, usage_holder, usage_counter, status_code,
                    upstream_headers, blocks, stream_end >>

\* the parser's part of the loop body, lines 303-324
StParse ==
    /\ pc = "st_parse"
    /\ fed_bytes' = fed_bytes \o chunk
    /\ LET p == feed_parser(text_buf, usage_holder, blocks, usage_counter, chunk)
       IN  /\ text_buf' = p.text_buf
           /\ usage_holder' = p.usage_holder
           /\ blocks' = p.blocks
           /\ IF p.raised
              THEN /\ stream_end' = "crashed"
                   /\ conn_open' = FALSE
                   /\ pc' = "done"
              ELSE /\ pc' = "st_read"
                   /\ UNCHANGED << stream_end, conn_open >>
    /\ UNCHANGED << handlerVars, calls, mode, USAGE_LOG_PATH, usage_log, records, sink_raised, nsVars,
                    upstream, client, req, wire, sent, opens, chunk, relayed, usage_counter, status_code, upstream_headers >>

\* the upstream closes the stream: the loop and the async with end, and the
\* usage record is logged inside try/except
StClose ==
    /\ pc = "st_read"
    /\ wire = << >>
    /\ stream_end' = "closed"
    /\ conn_open' = FALSE
    /\ pc' = "done"
    /\ LET record == make_usage_record(req.route, req.deployment, TRUE, status_code,
                         usage_holder, req.idempotency_key, upstream_headers)
       IN  /\ records' = Append(records, record)
           /\ IF USAGE_LOG_PATH = ""
              THEN UNCHANGED << usage_log, sink_raised >>
              ELSE \/ /\ usage_log' = Append(usage_log, UsageLine(record))
                      /\ UNCHANGED sink_raised
                   \/ /\ sink_raised' = TRUE
                      /\ UNCHANGED usage_log
    /\ UNCHANGED << handlerVars, calls, mode, USAGE_LOG_PATH, nsVars, upstream, client, req, wire, sent,
                    opens, chunk, relayed, fed_bytes, text_buf, usage_holder,
                    usage_counter, status_code, upstream_headers, blocks >>

\* the client goes away while the stream is relayed: _gen is suspended in
\* aiter_bytes or at its yield, the exception raised there leaves the
\* async with, which closes the upstream connection
StDisconnect ==
    /\ pc \in { "st_read", "st_yield" }
    /\ stream_end' = "disconnected"
    /\ conn_open' = FALSE
    /\ pc' = after_disconnect
    /\ UNCHANGED << handlerVars, calls, mode, USAGE_LOG_PATH, usage_log, records,
                    sink_raised, nsVars, upstream, client, req, wire, sent, opens,
                    chunk, relayed, fed_bytes, text_buf, usage_holder,
                    usage_counter, status_code, upstream_headers, blocks >>

Next ==
    \/ NsStart
    \/ NsSleep
    \/ NsAttempt
    \/ StStart
    \/ StConnect
    \/ StRead
    \/ StReadError
    \/ StYield
    \/ StParse
    \/ StClose
    \/ StDisconnect

Spec == Init /\ [][Next]_vars

NextRoute ==
    \/ RouteRequest
    \/ NsStart
    \/ NsSleep
    \/ NsAttempt
    \/ StStart
    \/ StConnect
    \/ StRead
    \/ StReadError
    \/ StYield
    \/ StParse
    \/ StClose
    \/ StDisconnect

SpecRoute == InitRoute /\ [][NextRoute]_vars

\* a streaming request in front of an upstream that closes its stream
\* inside an event block
InitParser ==
    /\ OPENAI_COMPAT_ENABLED = TRUE
    /\ PROXY_TOKEN = ""
    /\ DEFAULT_DEPLOYMENT = "summarization-deployment"
    /\ FORCE_JSON_RESPONSE = FALSE
    /\ scenario = "parser"
    /\ USAGE_LOG_PATH = ""
    /\ inbound \in { r \in SampleRequests : route_handler(r).req.stream }
    /\ req = route_handler(inbound).req
    /\ gen_called = route_handler(inbound).gen_called
    /\ pc = "start"
    /\ AsideIdle
    /\ ForwarderIdle

NextParser ==
    \/ StStart
    \/ StConnect
    \/ StRead
    \/ StYield
    \/ StParse
    \/ StClose

SpecParser == InitParser /\ [][NextParser]_vars

\* forward_nonstream on its own.  The event loop resumes the coroutine when
\* a sleep is over, and every client.post has an outcome: the client's
\* timeouts (main.py:135) bound the connect and the read.
NextNonstream ==
    \/ NsStart
    \/ NsSleep
    \/ NsAttempt

SpecNonstream == Init /\ [][NextNonstream]_vars /\ WF_vars(NextNonstream)

----------------------------------------------------------------------------
(* gen_idempotency_key on its own: two bodies are given, each gets its key *)

MessagesSwapped ==
    JList(<< ODict(<< << "content", JStr("hi") >>, << "role", JStr("user") >> >>) >>)

JsonSchemaFormatSwapped ==
    ODict(<< << "strict", JBool(TRUE) >>, << "type", JStr("json_schema") >> >>)

\* bodies that differ in the order of their fields, at the top or inside,
\* in fields the key does not read, in a field absent or null, or in a
\* field the key reads
KeyBodies ==
    { ODict(<< << "model", JStr("gpt-4.1") >>, << "messages", Messages >> >>),
      ODict(<< << "messages", Messages >>, << "model", JStr("gpt-4.1") >> >>),
      ODict(<< << "model", JStr("gpt-4.1") >>, << "messages", MessagesSwapped >> >>),
      ODict(<< << "model", JStr("gpt-4.1") >>, << "messages", Messages >>,
               << "user", JStr("u1") >>, << "stream", JBool(TRUE) >> >>),
      ODict(<< << "model", JStr("gpt-4.1") >>, << "messages", Messages >>,
               << "tools", JNull >>, << "temperature", JNull >> >>),
      ODict(<< << "model", JStr("gpt-4.1") >>, << "messages", Messages >>,
               << "response_format", JsonSchemaFormat >> >>),
      ODict(<< << "user", JStr("u1") >>, << "response_format", JsonSchemaFormatSwapped >>,
               << "messages", MessagesSwapped >>, << "model", JStr("gpt-4.1") >> >>),
      ODict(<< << "model", JStr("my-model") >>, << "messages", Messages >> >>),
      ODict(<< << "model", JStr("gpt-4.1") >>, << "messages", Messages >>,
               << "temperature", JNum(0) >> >>),
      ODict(<< << "temperature", JNum(1) >>, << "model", JStr("gpt-4.1") >>,
               << "messages", Messages >> >>) }

\* every variable no request touches
Quiet ==
    /\ OPENAI_COMPAT_ENABLED = TRUE
    /\ PROXY_TOKEN = ""
    /\ DEFAULT_DEPLOYMENT = "summarization-deployment"
    /\ FORCE_JSON_RESPONSE = FALSE
    /\ inbound = NoInbound
    /\ req = NoRequest
    /\ gen_called = FALSE
    /\ pc = "done"
    /\ ForwarderIdle

InitKey ==
    /\ DocsIdle
    /\ scenario = "key"
    /\ USAGE_LOG_PATH = ""
    /\ key_pair \in KeyBodies \X KeyBodies
    /\ key_out = << >>
    /\ lk_pc = << >>
    /\ lock_owner = 0
    /\ awaits = << >>
    /\ chunk_args = << >>
    /\ chunk_out = << >>
    /\ Quiet

\* gen_idempotency_key is called on each of the two bodies
KeyGen ==
    /\ scenario = "key"
    /\ key_out = << >>
    /\ key_out' = << gen_idempotency_key(key_pair[1]), gen_idempotency_key(key_pair[2]) >>
    /\ UNCHANGED << cfgVars, inbound, gen_called, key_pair, lk_pc, lock_owner,
                    ccVars, docVars, forwarderVars >>

NextKey == KeyGen

SpecKey == InitKey /\ [][NextKey]_vars

----------------------------------------------------------------------------
(* log_usage_record under concurrent requests.  The scheduler may switch   *)
(* between requests at every step of the function, which is at least what *)
(* the event loop does (it switches only where an await suspends).         *)

NumWriters == 3

Writers == 1..NumWriters

\* the record request w hands to log_usage_record
writer_record(w) ==
    make_usage_record("openai_v1_chat_completions", JStr("summarization-deployment"),
                      FALSE, 200, UsageTotal(w), JStr("key-1"), NoHeaders)

lock_ignored(owner) == TRUE

\* async with _usage_lock: the body is entered only once the lock is free
lock_free(owner) == owner = 0

InitLock ==
    /\ DocsIdle
    /\ scenario = "sink"
    /\ USAGE_LOG_PATH \in { "", "usage.jsonl" }
    /\ key_pair = << >>
    /\ key_out = << >>
    /\ lk_pc = [ w \in Writers |-> "running" ]
    /\ lock_owner = 0
    /\ awaits = << >>
    /\ chunk_args = << >>
    /\ chunk_out = << >>
    /\ Quiet

LkFrame ==
    UNCHANGED << cfgVars, inbound, gen_called, key_pair, key_out, ccVars, docVars, calls, conn_open,
                 pc, mode, USAGE_LOG_PATH, records, sink_raised, nsVars, upstream,
                 client, req, stVars >>

\* log_usage_record(record) is called: the line is built and printed; with
\* no log path the function returns at once
LkCall(w) ==
    /\ lk_pc[w] = "running"
    /\ lk_pc' = [ lk_pc EXCEPT ![w] = IF USAGE_LOG_PATH # "" THEN "acquire" ELSE "returned" ]
    /\ UNCHANGED << lock_owner, usage_log >>
    /\ LkFrame

\* async with _usage_lock
LkAcquire(w) ==
    /\ lk_pc[w] = "acquire"
    /\ lock_free(lock_owner)
    /\ lock_owner' = w
    /\ lk_pc' = [ lk_pc EXCEPT ![w] = "open" ]
    /\ UNCHANGED usage_log
    /\ LkFrame

\* with open(USAGE_LOG_PATH, "a", ...) as f: the file opens, or open raises
\* and the exception leaves the async with, which releases the lock
LkOpen(w) ==
    /\ lk_pc[w] = "open"
    /\ \/ /\ lk_pc' = [ lk_pc EXCEPT ![w] = "write" ]
          /\ UNCHANGED lock_owner
       \/ /\ lk_pc' = [ lk_pc EXCEPT ![w] = "raised" ]
          /\ lock_owner' = 0
    /\ UNCHANGED usage_log
    /\ LkFrame

\* f.write(line + "\n"): the whole line in one write, or write raises and
\* the exception leaves both with blocks
LkWrite(w) ==
    /\ lk_pc[w] = "write"
    /\ \/ /\ usage_log' = Append(usage_log, UsageLine(writer_record(w)))
          /\ lk_pc' = [ lk_pc EXCEPT ![w] = "close" ]
          /\ UNCHANGED lock_owner
       \/ /\ lk_pc' = [ lk_pc EXCEPT ![w] = "raised" ]
          /\ lock_owner' = 0
          /\ UNCHANGED usage_log
    /\ LkFrame

\* the end of both with blocks: the file is closed, the lock released
LkClose(w) ==
    /\ lk_pc[w] = "close"
    /\ lock_owner' = 0
    /\ lk_pc' = [ lk_pc EXCEPT ![w] = "returned" ]
    /\ UNCHANGED usage_log
    /\ LkFrame

NextLock ==
    \E w \in Writers :
        \/ LkCall(w)
        \/ LkAcquire(w)
        \/ LkOpen(w)
        \/ LkWrite(w)
        \/ LkClose(w)

SpecLock == InitLock /\ [][NextLock]_vars

----------------------------------------------------------------------------
(* Text fragmentation of the document service                              *)
(* (src/src/GraphTypeDefinitions/DocumentGQLModel.py).  A text is a        *)
(* sequence of characters.                                                 *)

MaxSentences == 5

MaxChunkSize == 3

Punctuation == { ".", "!", "?" }

RECURSIVE re_split(_)
\* re.split(r'(?<=[.!?])\s+', text): the text is cut at every run of
\* whitespace that follows a sentence-ending character
re_split(text) ==
    LET P == { i \in 2..Len(text) :
                 text[i] \in Whitespace /\ text[i - 1] \in Punctuation }
    IN  IF P = {} THEN << text >>
        ELSE << SubSeq(text, 1, FirstOf(P) - 1) >>
                \o re_split(lstrip(SubSeq(text, FirstOf(P), Len(text))))

\* [s.strip() for s in sentences if s.strip()]
split_into_sentences(text) ==
    LET pieces == re_split(text)
        stripped == [ i \in 1..Len(pieces) |-> strip(pieces[i]) ]
        nonempty(piece) == piece # << >>
    IN  SelectSeq(stripped, nonempty)

RECURSIVE join(_)
\* ' '.join(sentences)
join(sentences) ==
    IF Len(sentences) = 1 THEN sentences[1]
    ELSE sentences[1] \o << " " >> \o join(Tail(sentences))

RECURSIVE chunk_loop(_, _, _, _)
\* the while loop of lines 100-109, i being the index it has reached
chunk_loop(sentences, i, sentences_per_chunk, overlap_sentences) ==
    IF ~(i < Len(sentences)) THEN << >>
    ELSE LET last == IF i + sentences_per_chunk < Len(sentences)
                     THEN i + sentences_per_chunk ELSE Len(sentences)
             chunk_sentences == SubSeq(sentences, i + 1, last)
         IN  (IF chunk_sentences # << >> THEN << join(chunk_sentences) >> ELSE << >>)
                \o chunk_loop(sentences, i + sentences_per_chunk - overlap_sentences,
                              sentences_per_chunk, overlap_sentences)

create_overlapping_chunks(text, sentences_per_chunk, overlap_sentences) ==
    IF text = << >> \/ strip(text) = << >> THEN << >>
    ELSE LET sentences == split_into_sentences(text)
         IN  IF sentences = << >> THEN << text >>
             ELSE IF Len(sentences) <= sentences_per_chunk THEN << join(sentences) >>
             ELSE chunk_loop(sentences, 0, sentences_per_chunk, overlap_sentences)

\* the texts given to the function: sentences "a.", "b!", "c?", "d.", ...
\* each with its own letter
Letters == << "a", "b", "c", "d", "e", "f", "g", "h", "i", "j", "k", "l" >>

Marks == << ".", "!", "?", ".", "!", "?", ".", "!", "?", ".", "!", "?" >>

RECURSIVE TextOf(_, _)
TextOf(count, sep) ==
    IF count = 0 THEN << >>
    ELSE (IF count = 1 THEN << >> ELSE TextOf(count - 1, sep) \o sep)
            \o << Letters[count], Marks[count] >>

ChunkTexts ==
    { TextOf(c, sep) : c \in 0..MaxSentences, sep \in { << " " >>, << " ", "\n" >> } }
        \cup { << " ", "\n", " " >>,                 \* whitespace only
               << "a", " ", "b" >>,                  \* no sentence end at all
               << " " >> \o TextOf(2, << " " >>) \o << " " >>,
               TextOf(2, << " " >>) \o << " ", "c" >> }

InitChunks ==
    /\ DocsIdle
    /\ scenario = "chunks"
    /\ USAGE_LOG_PATH = ""
    /\ key_pair = << >>
    /\ key_out = << >>
    /\ lk_pc = << >>
    /\ lock_owner = 0
    /\ awaits = << >>
    /\ \E text \in ChunkTexts, n \in 1..MaxChunkSize :
          \E k \in 0..(n - 1) :
              chunk_args = [ text |-> text, sentences_per_chunk |-> n,
                             overlap_sentences |-> k ]
    /\ chunk_out = << "none" >>
    /\ Quiet

\* create_overlapping_chunks(text, sentences_per_chunk, overlap_sentences)
ChunkCall ==
    /\ scenario = "chunks"
    /\ chunk_out = << "none" >>
    /\ chunk_out' = << "returned",
                       create_overlapping_chunks(chunk_args.text,
                           chunk_args.sentences_per_chunk,
                           chunk_args.overlap_sentences) >>
    /\ UNCHANGED << cfgVars, inbound, gen_called, key_pair, key_out, lk_pc,
                    lock_owner, awaits, chunk_args, docVars, forwarderVars >>

NextChunks == ChunkCall

SpecChunks == InitChunks /\ [][NextChunks]_vars

----------------------------------------------------------------------------
(* Requests in flight together.  Each is followed through the awaits of    *)
(* its forwarder, where the event loop runs the other requests, and then   *)
(* through log_usage_record.                                               *)

NumRequests == 2

MaxChunks == 2

InFlight == 1..NumRequests

\* the request whose upstream may hang for ever
HungRequest == 1

lock_while_awaiting_held(w, owner) == IF owner = 0 THEN w ELSE owner

\* _usage_lock across an await of the upstream or of a sleep: neither
\* forwarder touches it, it is taken in log_usage_record only
lock_while_awaiting(w, owner) == owner

InitConcurrent ==
    /\ DocsIdle
    /\ scenario = "concurrent"
    /\ USAGE_LOG_PATH \in { "", "usage.jsonl" }
    /\ key_pair = << >>
    /\ key_out = << >>
    /\ lk_pc \in [ InFlight -> { "ns_post", "st_connect" } ]
    /\ lock_owner = 0
    /\ awaits = [ w \in InFlight |-> 0 ]
    /\ chunk_args = << >>
    /\ chunk_out = << >>
    /\ Quiet

CcFrame ==
    UNCHANGED << cfgVars, inbound, gen_called, key_pair, key_out, usage_log,
                 chunk_args, chunk_out, docVars, forwarderVars >>

\* await client.post(...) ends: a non-retryable response, which is logged,
\* or a failure, followed by a sleep or after the last attempt by the 502
CcPost(w) ==
    /\ lk_pc[w] = "ns_post"
    /\ awaits' = [ awaits EXCEPT ![w] = @ + 1 ]
    /\ \/ lk_pc' = [ lk_pc EXCEPT ![w] = "running" ]
       \/ lk_pc' = [ lk_pc EXCEPT ![w] =
                       IF awaits[w] = MAX_RETRIES THEN "returned" ELSE "ns_sleep" ]
    /\ lock_owner' = lock_while_awaiting(w, lock_owner)
    /\ CcFrame

\* await asyncio.sleep(delay) ends
CcSleep(w) ==
    /\ lk_pc[w] = "ns_sleep"
    /\ lk_pc' = [ lk_pc EXCEPT ![w] = "ns_post" ]
    /\ lock_owner' = lock_while_awaiting(w, lock_owner)
    /\ UNCHANGED awaits
    /\ CcFrame

\* async with client.stream(...) ends: connected, or the exception leaves
\* _gen
CcConnect(w) ==
    /\ lk_pc[w] = "st_connect"
    /\ \/ lk_pc' = [ lk_pc EXCEPT ![w] = "st_chunk" ]
       \/ lk_pc' = [ lk_pc EXCEPT ![w] = "returned" ]
    /\ lock_owner' = lock_while_awaiting(w, lock_owner)
    /\ UNCHANGED awaits
    /\ CcFrame

\* the await in aiter_bytes ends: a chunk, relayed and parsed; the end of
\* the stream, after which the record is logged; or a read error
CcChunk(w) ==
    /\ lk_pc[w] = "st_chunk"
    /\ \/ /\ awaits[w] < MaxChunks
          /\ awaits' = [ awaits EXCEPT ![w] = @ + 1 ]
          /\ UNCHANGED lk_pc
       \/ /\ lk_pc' = [ lk_pc EXCEPT ![w] = "running" ]
          /\ UNCHANGED awaits
       \/ /\ lk_pc' = [ lk_pc EXCEPT ![w] = "returned" ]
          /\ UNCHANGED awaits
    /\ lock_owner' = lock_while_awaiting(w, lock_owner)
    /\ CcFrame

\* the steps of request w that wait for its upstream
CcUpstream(w) == CcPost(w) \/ CcConnect(w) \/ CcChunk(w)

\* the steps of request w that wait for nothing outside the process
CcLocal(w) ==
    \/ CcSleep(w)
    \/ LkCall(w)
    \/ LkAcquire(w)
    \/ LkOpen(w)
    \/ LkWrite(w)
    \/ LkClose(w)

NextConcurrent == \E w \in InFlight : CcUpstream(w) \/ CcLocal(w)

\* the event loop runs every request that can run; every upstream answers
\* or fails in the end, but for the upstream of one request
SpecConcurrent ==
    /\ InitConcurrent
    /\ [][NextConcurrent]_vars
    /\ \A w \in InFlight : WF_vars(CcLocal(w))
    /\ \A w \in InFlight \ { HungRequest } : WF_vars(CcUpstream(w))

----------------------------------------------------------------------------
(* The document service (src/src/GraphTypeDefinitions/DocumentGQLModel.py  *)
(* and FragmentGQLModel.py) over its two tables.  One document id is       *)
(* inserted, updated and deleted; a second document with a fragment of its *)
(* own stands by.  A mutation is followed through its awaits: the row is   *)
(* loaded for it, then its resolver runs, and the resolver of              *)
(* Document_delete commits the deletion of the fragments before it         *)
(* deletes the document.  Times are counted: every write takes the next.   *)

MaxClock == 2

\* the mutations followed through their awaits
Callers == DOMAIN mutations

\* sentences_per_chunk and overlap_sentences of line 393
SentencesPerFragment == 10

OverlapPerFragment == 1

Subject == "doc-1"

Bystander == "doc-2"

DocIds == { Subject, Bystander }

NoRow == << >>

\* the error codes DocumentGQLModel.py imports; those error_codes.py does
\* not spell out stand for themselves
DOCUMENT_UPDATE_NOT_FOUND ==
    [ code |-> "DOCUMENT_UPDATE_NOT_FOUND.code", msg |-> "DOCUMENT_UPDATE_NOT_FOUND.msg" ]

DOCUMENT_UPDATE_STALE_DATA ==
    [ code |-> "a1b2c3d4-2222-4002-8002-000000000012",
      msg |-> "Document was modified by another user. Please refresh and try again." ]

DOCUMENT_DELETE_NOT_FOUND ==
    [ code |-> "DOCUMENT_DELETE_NOT_FOUND.code", msg |-> "DOCUMENT_DELETE_NOT_FOUND.msg" ]

\* an InsertError, UpdateError or DeleteError built from an ErrorCode
ErrorOf(err) == [ failed |-> TRUE, code |-> err.code, msg |-> err.msg ]

\* the error of the uoishelpers helper itself, which has none of the codes
\* of error_codes.py
HelperError == [ failed |-> TRUE, code |-> "uoishelpers", msg |-> "uoishelpers" ]

\* the entity, or the None of a delete
Done == [ failed |-> FALSE, code |-> "", msg |-> "" ]

FragmentsOf(rows, id) == { f \in rows : f.document_id = id }

references_unchecked(docs, rows) == TRUE

\* fragments.document_id refers to the documents table (the relationship of
\* DocumentDBModel.py:31-37): every fragment row has its document row
references_hold(docs, rows) == \A f \in rows : docs[f.document_id] # NoRow

\* the rows generate_document_fragments builds of the chunks whose
\* embedding was computed
fragment_rows(document_id, chunks, embedded) ==
    { [ id |-> << "auto", idx >>, document_id |-> document_id,
        content |-> chunks[idx] ] : idx \in embedded }

manual_row(document_id) ==
    [ id |-> << "manual", 1 >>, document_id |-> document_id,
      content |-> << "m", "." >> ]

NoTask == [ pc |-> "none", document_id |-> Subject, chunks |-> << >>, idx |-> 0,
            embedded |-> {}, fragments_created |-> 0 ]

IdleCall == [ pc |-> "idle" ]

TaskRunning == gen_task.pc = "loop"

\* the contents given to Document_insert: none, blank, one chunk, two chunks
DocumentTexts ==
    { << >>, << " " >>, TextOf(2, << " " >>), TextOf(11, << " " >>) }

InitDocs ==
    /\ scenario = "documents"
    /\ USAGE_LOG_PATH = ""
    /\ key_pair = << >>
    /\ key_out = << >>
    /\ lk_pc = << >>
    /\ lock_owner = 0
    /\ awaits = << >>
    /\ chunk_args = << >>
    /\ chunk_out = << >>
    /\ SYNC_FRAGMENT_GENERATION \in BOOLEAN
    /\ documents = [ id \in DocIds |->
                       IF id = Bystander
                       THEN [ content |-> TextOf(1, << " " >>),
                              classification |-> "public", lastchange |-> 0 ]
                       ELSE NoRow ]
    /\ fragments = { manual_row(Bystander) }
    /\ db_clock = 0
    /\ gen_task = NoTask
    /\ mutations = [ c \in { "first" } |-> IdleCall ]
    /\ doc_result = << >>
    /\ Quiet

DocFrame ==
    UNCHANGED << cfgVars, inbound, gen_called, key_pair, key_out, lk_pc,
                 lock_owner, ccVars, SYNC_FRAGMENT_GENERATION, forwarderVars >>

\* what a mutation returned to caller c
Returned(c, op, result) == [ by |-> c, op |-> op, result |-> result ]

\* lines 435-446: the session is committed only if every chunk gave a
\* fragment, and a commit the database refuses is caught and printed
task_commit(docs, rows, task) ==
    IF task.fragments_created = Len(task.chunks)
    THEN LET added == rows \cup fragment_rows(task.document_id, task.chunks,
                                              task.embedded)
         IN  IF references_hold(docs, added) THEN added ELSE rows
    ELSE rows

\* Document_insert(Document) for the subject id.  In sync mode the
\* fragments are generated before it returns, otherwise the task is created
\* and runs at the awaits of the requests that follow.  One generation is
\* followed at a time.
Document_insert(content) ==
    /\ scenario = "documents"
    /\ ~TaskRunning
    /\ IF content = << >> \/ strip(content) = << >>
       THEN \* InsertError of DOCUMENT_INSERT_NO_CONTENT
            UNCHANGED << documents, fragments, db_clock, gen_task >>
       ELSE IF documents[Subject] # NoRow
       THEN \* Insert.DoItSafeWay: the id is taken
            UNCHANGED << documents, fragments, db_clock, gen_task >>
       ELSE /\ db_clock < MaxClock
            /\ db_clock' = db_clock + 1
            /\ documents' = [ documents EXCEPT ![Subject] =
                                [ content |-> content, classification |-> "public",
                                  lastchange |-> db_clock + 1 ] ]
            /\ LET chunks == create_overlapping_chunks(content,
                                 SentencesPerFragment, OverlapPerFragment)
                   started == [ pc |-> "loop", document_id |-> Subject,
                                chunks |-> chunks, idx |-> 0, embedded |-> {},
                                fragments_created |-> 0 ]
               IN  IF SYNC_FRAGMENT_GENERATION
                   THEN \E embedded \in SUBSET (1..Len(chunks)) :
                          LET ended == [ started EXCEPT !.pc = "done",
                                           !.idx = Len(chunks),
                                           !.embedded = embedded,
                                           !.fragments_created = Cardinality(embedded) ]
                          IN  /\ fragments' = task_commit(documents', fragments, ended)
                              /\ gen_task' = ended
                   ELSE /\ gen_task' = started
                        /\ UNCHANGED fragments
    /\ UNCHANGED << mutations, doc_result >>
    /\ DocFrame

\* generate_document_fragments, one iteration of the loop of lines 404-432:
\* compute_embedding returns a vector or None
GenChunk ==
    /\ scenario = "documents"
    /\ gen_task.pc = "loop"
    /\ gen_task.idx < Len(gen_task.chunks)
    /\ \E vector_ok \in BOOLEAN :
          gen_task' = [ gen_task EXCEPT
                          !.idx = @ + 1,
                          !.embedded = IF vector_ok THEN @ \cup { gen_task.idx + 1 } ELSE @,
                          !.fragments_created = IF vector_ok THEN @ + 1 ELSE @ ]
    /\ UNCHANGED << documents, fragments, db_clock, mutations, doc_result >>
    /\ DocFrame

\* generate_document_fragments after the loop: commit or rollback
GenEnd ==
    /\ scenario = "documents"
    /\ gen_task.pc = "loop"
    /\ gen_task.idx = Len(gen_task.chunks)
    /\ fragments' = task_commit(documents, fragments, gen_task)
    /\ gen_task' = [ gen_task EXCEPT !.pc = "done" ]
    /\ UNCHANGED << documents, db_clock, mutations, doc_result >>
    /\ DocFrame

\* fragment_insert(fragment) with document_id the subject id: the embedding
\* is computed, then Insert.DoItSafeWay stores the row
fragment_insert ==
    /\ scenario = "documents"
    /\ \E vector_ok \in BOOLEAN :
          LET added == fragments \cup { manual_row(Subject) }
          IN  IF ~vector_ok
              THEN \* InsertError of FRAGMENT_INSERT_EMBEDDING_FAILED
                   UNCHANGED fragments
              ELSE IF manual_row(Subject) \in fragments
                      \/ ~references_hold(documents, added)
              THEN UNCHANGED fragments
              ELSE fragments' = added
    /\ UNCHANGED << documents, db_clock, gen_task, mutations, doc_result >>
    /\ DocFrame

DocumentMutations ==
    { "Document_update", "Document_update_classification", "Document_delete" }

\* LoadDataExtension: the row of the input's id is loaded and handed to the
\* resolver as db_row.  task_running notes for the properties whether the
\* fragments were being generated when the mutation began.
LoadData(c, op, lastchange) ==
    /\ scenario = "documents"
    /\ mutations[c].pc = "idle"
    /\ mutations' = [ mutations EXCEPT ![c] =
                        [ pc |-> "loaded", op |-> op, lastchange |-> lastchange,
                          db_row |-> documents[Subject],
                          task_running |-> TaskRunning ] ]
    /\ UNCHANGED << documents, fragments, db_clock, gen_task, doc_result >>
    /\ DocFrame

\* Update.DoItSafeWay(entity) of uoishelpers: the row is read again, its
\* lastchange compared with the entity's, the given field written and the
\* lastchange set to the time of the write
Update_DoItSafeWay(docs, id, lastchange, field, value, now) ==
    IF docs[id] = NoRow \/ docs[id].lastchange # lastchange
    THEN << docs, HelperError >>
    ELSE << [ docs EXCEPT ![id] = [ docs[id] EXCEPT ![field] = value,
                                                    !.lastchange = now ] ],
            Done >>

stale_check_skipped(db_row, lastchange) == FALSE

\* db_row.lastchange != Document.lastchange
is_stale(db_row, lastchange) == db_row.lastchange # lastchange

\* the body of Document_update and of Document_update_classification
update_resolver(call, field, value, docs, now) ==
    IF call.db_row = NoRow THEN << docs, ErrorOf(DOCUMENT_UPDATE_NOT_FOUND) >>
    ELSE IF is_stale(call.db_row, call.lastchange)
    THEN << docs, ErrorOf(DOCUMENT_UPDATE_STALE_DATA) >>
    ELSE Update_DoItSafeWay(docs, Subject, call.lastchange, field, value, now)

UpdateStep(c, op, field, value) ==
    /\ scenario = "documents"
    /\ mutations[c].pc = "loaded"
    /\ mutations[c].op = op
    /\ LET out == update_resolver(mutations[c], field, value, documents, db_clock + 1)
       IN  /\ out[1] # documents => db_clock < MaxClock
           /\ documents' = out[1]
           /\ db_clock' = IF out[1] # documents THEN db_clock + 1 ELSE db_clock
           /\ doc_result' = Returned(c, op, out[2])
    /\ mutations' = [ mutations EXCEPT ![c] = IdleCall ]
    /\ UNCHANGED << fragments, gen_task >>
    /\ DocFrame

Document_update(c) == UpdateStep(c, "Document_update", "content", TextOf(1, << " " >>))

Document_update_classification(c) ==
    UpdateStep(c, "Document_update_classification", "classification", "secret")

\* what a Document_delete returned to caller c
Deleted(call, result) ==
    [ by |-> call.by, op |-> "Document_delete", result |-> result,
      deleted_count |-> call.deleted_count, task_running |-> call.task_running ]

delete_fragments_none(rows, id) == rows

\* delete(FragmentModel).where(FragmentModel.document_id == Document.id),
\* executed and committed
delete_fragments(rows, id) == rows \ FragmentsOf(rows, id)

\* Document_delete up to the commit of line 694: the fragments of the
\* document are deleted
DeleteFragments(c) ==
    /\ scenario = "documents"
    /\ mutations[c].pc = "loaded"
    /\ mutations[c].op = "Document_delete"
    /\ IF mutations[c].db_row = NoRow
       THEN /\ doc_result' = Deleted([ by |-> c, deleted_count |-> 0,
                                         task_running |-> mutations[c].task_running ],
                                       ErrorOf(DOCUMENT_DELETE_NOT_FOUND))
            /\ mutations' = [ mutations EXCEPT ![c] = IdleCall ]
            /\ UNCHANGED fragments
       ELSE /\ fragments' = delete_fragments(fragments, Subject)
            /\ mutations' = [ mutations EXCEPT ![c] =
                                [ pc |-> "cascaded", op |-> @.op, by |-> c,
                                  lastchange |-> @.lastchange,
                                  task_running |-> @.task_running,
                                  deleted_count |->
                                      Cardinality(fragments \ fragments') ] ]
            /\ UNCHANGED doc_result
    /\ UNCHANGED << documents, db_clock, gen_task >>
    /\ DocFrame

\* Delete.DoItSafeWay(entity) of uoishelpers: the outcomes it can have.  A
\* row that fragments refer to cannot be deleted; whether the helper
\* compares the lastchange is not decided by the callers, both are outcomes
Delete_DoItSafeWay(docs, rows, id, lastchange) ==
    LET removed == [ docs EXCEPT ![id] = NoRow ]
    IN  IF docs[id] = NoRow \/ ~references_hold(removed, rows)
        THEN { << docs, HelperError >> }
        ELSE IF docs[id].lastchange # lastchange
        THEN { << docs, HelperError >>, << removed, Done >> }
        ELSE { << removed, Done >> }

\* Document_delete, line 700: the document itself is deleted
DeleteDocument(c) ==
    /\ scenario = "documents"
    /\ mutations[c].pc = "cascaded"
    /\ \E out \in Delete_DoItSafeWay(documents, fragments, Subject,
                                     mutations[c].lastchange) :
          /\ documents' = out[1]
          /\ doc_result' = Deleted(mutations[c], out[2])
    /\ mutations' = [ mutations EXCEPT ![c] = IdleCall ]
    /\ UNCHANGED << fragments, db_clock, gen_task >>
    /\ DocFrame

NextDocs ==
    \/ \E content \in DocumentTexts : Document_insert(content)
    \/ GenChunk
    \/ GenEnd
    \/ fragment_insert
    \/ \E c \in Callers, op \in DocumentMutations, lastchange \in 0..db_clock :
          LoadData(c, op, lastchange)
    \/ \E c \in Callers : Document_update(c)
    \/ \E c \in Callers : Document_update_classification(c)
    \/ \E c \in Callers : DeleteFragments(c)
    \/ \E c \in Callers : DeleteDocument(c)

SpecDocs == InitDocs /\ [][NextDocs]_vars

\* two mutations in flight together, the fragments being generated inside
\* Document_insert
InitRace ==
    /\ scenario = "documents"
    /\ USAGE_LOG_PATH = ""
    /\ key_pair = << >>
    /\ key_out = << >>
    /\ lk_pc = << >>
    /\ lock_owner = 0
    /\ awaits = << >>
    /\ chunk_args = << >>
    /\ chunk_out = << >>
    /\ SYNC_FRAGMENT_GENERATION = TRUE
    /\ documents = [ id \in DocIds |->
                       IF id = Bystander
                       THEN [ content |-> TextOf(1, << " " >>),
                              classification |-> "public", lastchange |-> 0 ]
                       ELSE NoRow ]
    /\ fragments = { manual_row(Bystander) }
    /\ db_clock = 0
    /\ gen_task = NoTask
    /\ mutations = [ c \in { "first", "second" } |-> IdleCall ]
    /\ doc_result = << >>
    /\ Quiet

NextRace ==
    \/ \E content \in DocumentTexts : Document_insert(content)
    \/ \E c \in Callers, op \in DocumentMutations, lastchange \in 0..db_clock :
          LoadData(c, op, lastchange)
    \/ \E c \in Callers : Document_update(c)
    \/ \E c \in Callers : Document_update_classification(c)
    \/ \E c \in Callers : DeleteFragments(c)
    \/ \E c \in Callers : DeleteDocument(c)

SpecRace == InitRace /\ [][NextRace]_vars

----------------------------------------------------------------------------
(* Properties                                                              *)

IsPrefix(a, b) == Len(a) <= Len(b) /\ SubSeq(b, 1, Len(a)) = a

IsRetryableStatus(o) == o[1] = "status" /\ o[2] \in RetryableStatuses

NsDone == mode = "nonstream" /\ pc = "done"

BadGateway == client.kind = "HTTPException" /\ client.status_code = 502

\* C1: every non-streaming request has handed exactly one usage record to
\* log_usage_record when forward_nonstream hands back its result, be it the
\* relayed non-retryable upstream response or the 502 after all attempts
\* failed.
C1_OneRecordPerRequest ==
    (NsDone /\ client.kind \in { "JSONResponse", "PlainTextResponse", "HTTPException" })
        => Len(records) = 1

\* C2: when the upstream stream has ended, normally or with a connect/read
\* error, exactly one usage record has been emitted, with stream=true and the
\* status and headers captured at connect.
C2_OneRecordAtStreamEnd ==
    (mode = "stream" /\ stream_end \in { "closed", "error" }) =>
        /\ Len(records) = 1
        /\ records[1] = make_usage_record(req.route, req.deployment, TRUE,
                            upstream.status_code, usage_holder,
                            req.idempotency_key, upstream.headers)

\* C3 as stated: once the first max_retries = 3 upstream responses were
\* retryable statuses, the request ends after exactly 4 attempts with a 502.
C3_ThreeRetryableGive502 ==
    ( /\ NsDone
      /\ Len(outcomes) >= MAX_RETRIES
      /\ \A i \in 1..MAX_RETRIES : IsRetryableStatus(outcomes[i]) )
    => (Len(outcomes) = MAX_RETRIES + 1 /\ BadGateway)

\* C3 amended: as long as every upstream response is a retryable status the
\* request goes on, and it ends exactly at the 4th (max_retries + 1) such
\* response, with a 502.
C3_FourRetryableGive502 ==
    ( /\ mode = "nonstream"
      /\ \A i \in 1..Len(outcomes) : IsRetryableStatus(outcomes[i]) )
    => /\ Len(outcomes) <= MAX_RETRIES + 1
       /\ (pc = "done") <=> (Len(outcomes) = MAX_RETRIES + 1)
       /\ (pc = "done") => BadGateway

C3_Witness ==
    /\ NsDone
    /\ Len(outcomes) = MAX_RETRIES + 1
    /\ \A i \in 1..Len(outcomes) : IsRetryableStatus(outcomes[i])
    /\ BadGateway

\* C4: the first upstream response with a non-retryable status ends the
\* request, and (the usage sink working) the client receives that status and
\* a body identical to the upstream body.
C4_NonRetryablePassedThrough ==
    ( /\ NsDone
      /\ ~sink_raised
      /\ outcomes # << >>
      /\ outcomes[Len(outcomes)][1] = "status"
      /\ ~should_retry(outcomes[Len(outcomes)][2]) )
    => /\ client.status_code = upstream.status_code
       /\ client.body = upstream.body

\* C5: a streaming request opens exactly one upstream connection, whatever
\* the status and whatever fails at or after connect.
C5_OneUpstreamConnection ==
    mode = "stream" => opens = (IF pc = "st_connect" THEN 0 ELSE 1)

C5_Witness ==
    /\ mode = "stream"
    /\ pc = "done"
    /\ stream_end = "error"
    /\ status_code = 429
    /\ relayed # << >>
    /\ opens = 1

\* C6: the bytes yielded to the client are, chunk by chunk, the bytes read
\* from upstream: a chunk is yielded before it is handed to the parser and
\* before the next chunk is read, and at a normal close everything the
\* upstream sent has been yielded.
C6_RelayInOrder ==
    mode = "stream" =>
        /\ IsPrefix(relayed, sent)
        /\ IsPrefix(fed_bytes, relayed)
        /\ pc = "st_yield" => (sent = relayed \o chunk /\ fed_bytes = relayed)
        /\ pc = "st_parse" => (relayed = sent /\ relayed = fed_bytes \o chunk)
        /\ pc = "st_read" => relayed = sent
        /\ stream_end = "closed" => (relayed = sent /\ wire = << >>)

C6_Witness ==
    /\ mode = "stream"
    /\ stream_end = "closed"
    /\ Len(chunk) < Len(sent)
    /\ relayed = StreamMalformed

\* what the parser does with the whole stream given as one chunk
Unsplit(stream) == feed_parser(<< >>, JNull, << >>, Len(stream), stream)

\* C7: however the stream is split into reads, the parser processes the same
\* complete event blocks, uncorrupted, as for the unsplit stream, and finds
\* the same usage.
C7_SplitIndependent ==
    (mode = "stream" /\ stream_end = "closed") =>
        /\ blocks = Unsplit(sent).blocks
        /\ usage_holder = Unsplit(sent).usage_holder

Surrogate == << "surrogate" >>

\* the usage the claim gives an event, prev when the event sets none
ClaimedUsage(evt, prev) ==
    IF IsDict(evt) /\ DictGet(evt, "type") = CompletedType
    THEN IF /\ "response" \in DOMAIN evt[2]
            /\ IsDict(evt[2].response)
            /\ "usage" \in DOMAIN evt[2].response[2]
         THEN evt[2].response[2].usage
         ELSE IF "usage" \in DOMAIN evt[2] THEN evt[2].usage ELSE Surrogate
    ELSE prev

ClaimedLine(rawline, prev) ==
    LET line == strip(rawline)
        payload == strip(SubSeq(line, Len(DataPrefix) + 1, Len(line)))
    IN  IF ~startswith_data(line) \/ payload = << >> \/ payload = DoneMarker
        THEN prev
        ELSE IF json_loads(payload) = Raised THEN prev
        ELSE ClaimedUsage(json_loads(payload), prev)

RECURSIVE ClaimedLines(_, _)
ClaimedLines(lines, prev) ==
    IF lines = << >> THEN prev
    ELSE ClaimedLines(Tail(lines), ClaimedLine(Head(lines), prev))

RECURSIVE ClaimedBlocks(_, _)
ClaimedBlocks(bs, prev) ==
    IF bs = << >> THEN prev
    ELSE ClaimedBlocks(Tail(bs), ClaimedLines(splitlines(Head(bs)), prev))

IsByteCount(u) ==
    /\ IsDict(u)
    /\ DOMAIN u[2] = { "usage_counter" }
    /\ u[2].usage_counter[2] \in 1..usage_counter

\* C8: the recorded usage is the one of the last response.completed event
\* processed: response.usage if present, else the event's usage, else the
\* byte-count surrogate; nothing else sets it.  The example stream yields one
\* record with total_tokens = 42.
C8_CompletedEventUsage ==
    mode = "stream" =>
        /\ LET claimed == ClaimedBlocks(blocks, JNull)
           IN  IF claimed = Surrogate THEN IsByteCount(usage_holder)
                                      ELSE usage_holder = claimed
        /\ (stream_end = "closed" /\ sent = StreamCompleted) =>
               (Len(records) = 1 /\ records[1].usage = UsageTotal(42))

\* C9: when log_usage_record raises, the client still receives what it
\* receives when the sink succeeds, on both paths.
C9_SinkFailureInvisible ==
    sink_raised =>
        /\ mode = "nonstream" =>
               client = nonstream_answer(upstream.status_code, upstream.body)
        /\ mode = "stream" =>
               (stream_end = "closed" /\ relayed = sent /\ wire = << >>)

\* C10: whatever the stream holds, every chunk is relayed and the stream
\* runs to its normal end unless the upstream itself fails.
C10_ContentNeverFailsRelay ==
    (mode = "stream" /\ pc = "done" /\ stream_end \notin { "error", "disconnected" }) =>
        (stream_end = "closed" /\ wire = << >> /\ relayed = sent)

----------------------------------------------------------------------------
(* Properties of the route handler (SpecRoute)                             *)

\* the handler has run for the inbound request
Handled == pc # "request"

\* the handler called a forwarder
IsForwarded == Handled /\ req.route # ""

\* the handler got past the mode check and require_auth
Accepted ==
    Handled /\ ~(client.kind = "HTTPException" /\ client.status_code \in { 401, 404 })

\* the body names a model that is no key of the model map
UnmappedModel(b) ==
    /\ IsODict(b)
    /\ OGet(b, "model")[1] = "str"
    /\ OGet(b, "model")[2] # ""
    /\ OGet(b, "model")[2] \notin DOMAIN MODEL_MAP

\* the upstream URL of a deployment on a route
EndpointUrl(rt, dep) ==
    IF rt.endpoint = "responses" THEN azure_responses_url(dep)
                                 ELSE build_upstream_url(dep)

\* C11: a request whose model is not in the model map goes to the default
\* deployment; with no default configured it is answered 400 with the model
\* and the mapping table and no upstream call is made; no upstream call ever
\* has a null or empty deployment in its URL.
C11_UnmappedModelGetsDefault ==
    /\ (Accepted /\ UnmappedModel(inbound.body)) =>
          IF DEFAULT_DEPLOYMENT # ""
          THEN /\ req.deployment = JStr(DEFAULT_DEPLOYMENT)
               /\ \A i \in DOMAIN calls :
                     calls[i].url = EndpointUrl(inbound.route, JStr(DEFAULT_DEPLOYMENT))
               /\ pc = "done" => calls # << >>
          ELSE /\ client = HTTPException(400,
                              << "No deployment mapped for model",
                                 OGet(inbound.body, "model"), MODEL_MAP >>)
               /\ calls = << >>
    /\ \A i \in DOMAIN calls : calls[i].url[3] \notin { JNull, JStr("") }
    /\ IsForwarded => req.deployment \notin { JNull, JStr("") }

C11_Witness ==
    /\ pc = "done"
    /\ UnmappedModel(inbound.body)
    /\ inbound.route.deployment # JNull
    /\ DEFAULT_DEPLOYMENT # ""
    /\ Len(calls) = 1
    /\ calls[1].url[3] = JStr(DEFAULT_DEPLOYMENT)
    /\ Len(records) = 1
    /\ records[1].deployment = JStr(DEFAULT_DEPLOYMENT)

\* the Idempotency-Key header of the inbound request, None when absent
ClientKey == HeaderGet(inbound.headers, "Idempotency-Key")

\* k is the key of the request, of every upstream call and of every record
KeyEverywhere(k) ==
    /\ req.idempotency_key = k
    /\ \A i \in DOMAIN calls :
          /\ "Idempotency-Key" \in DOMAIN calls[i].headers
          /\ calls[i].headers["Idempotency-Key"] = k
    /\ \A i \in DOMAIN records : records[i].idempotency_key = k

\* C12 as stated: whenever the client sends an Idempotency-Key header,
\* gen_idempotency_key is not invoked and the header's value is the key sent
\* upstream and the key of the usage record; a key is generated only when
\* the client sent no such header.
C12_ClientKeyUsed ==
    (IsForwarded /\ pc = "done") =>
        /\ "Idempotency-Key" \in DOMAIN inbound.headers =>
              (~gen_called /\ KeyEverywhere(ClientKey))
        /\ gen_called => "Idempotency-Key" \notin DOMAIN inbound.headers

\* C12 amended: whenever the client sends a non-empty Idempotency-Key
\* header, gen_idempotency_key is not invoked and the header's value is the
\* key sent upstream and the key of the usage record; a key is generated
\* only when the client sent no such header or an empty one.
C12_NonEmptyClientKeyUsed ==
    Handled =>
        /\ Truthy(ClientKey) =>
              (~gen_called /\ (IsForwarded => KeyEverywhere(ClientKey)))
        /\ gen_called => ~Truthy(ClientKey)

C12_Witness ==
    /\ pc = "done"
    /\ ClientKey = JStr("client-key")
    /\ ~gen_called
    /\ Len(calls) > 1
    /\ \A i \in DOMAIN calls : calls[i].headers["Idempotency-Key"] = JStr("client-key")
    /\ Len(records) = 1
    /\ records[1].idempotency_key = JStr("client-key")

\* the inbound request carries the configured secret
TokenOk ==
    /\ "X-Proxy-Token" \in DOMAIN inbound.headers
    /\ inbound.headers["X-Proxy-Token"] = PROXY_TOKEN

ResolvedFromModel(b) ==
    LET m == OGet(b, "model") IN
    IF m[1] = "str" /\ m[2] \in DOMAIN MODEL_MAP
    THEN JStr(MODEL_MAP[m[2]])
    ELSE JStr(DEFAULT_DEPLOYMENT)

\* d is the deployment of the request, of every upstream URL and record
DeploymentEverywhere(d) ==
    /\ req.deployment = d
    /\ \A i \in DOMAIN calls : calls[i].url = EndpointUrl(inbound.route, d)
    /\ \A i \in DOMAIN records : records[i].deployment = d

\* C15 as stated: on the explicit-deployment route a body that carries a
\* model (a "model" field that is not null) has its deployment resolved from
\* the model; the path deployment is used only when the body has none.
C15_ModelBeforePath ==
    (IsForwarded /\ inbound.route.deployment # JNull) =>
        IF OGet(inbound.body, "model") # JNull
        THEN DeploymentEverywhere(ResolvedFromModel(inbound.body))
        ELSE DeploymentEverywhere(inbound.route.deployment)

\* C15 amended: on the explicit-deployment route a body that carries a
\* non-empty model has its deployment resolved from the model; the path
\* deployment is used only when the body has no model or an empty one.
C15_NonEmptyModelBeforePath ==
    (IsForwarded /\ inbound.route.deployment # JNull) =>
        IF Truthy(OGet(inbound.body, "model"))
        THEN DeploymentEverywhere(ResolvedFromModel(inbound.body))
        ELSE DeploymentEverywhere(inbound.route.deployment)

C15_Witness ==
    /\ pc = "done"
    /\ inbound.route.deployment = JStr("path-deployment")
    /\ IsForwarded
    /\ OGet(inbound.body, "model") = JStr("gpt-4.1")
    /\ Len(calls) = 1
    /\ calls[1].url = build_upstream_url(JStr("orchestration-deployment"))
    /\ Len(records) = 1
    /\ records[1].deployment = JStr("orchestration-deployment")

\* rf is an object whose type is json_object or json_schema
IsJsonFormat(rf) ==
    IsODict(rf) /\ OGet(rf, "type") \in { JStr("json_object"), JStr("json_schema") }

\* C16: on a chat route with FORCE_JSON_RESPONSE on, the body sent upstream
\* has a response_format of type json_object or json_schema: the inbound one
\* when it already is, {"type": "json_object"} in place of anything else;
\* on the responses route, or with the toggle off, response_format is
\* neither added nor changed.
C16_JsonForcedOnChatOnly ==
    \A i \in DOMAIN calls :
        LET inrf == OGet(inbound.body, "response_format")
            outrf == OGet(calls[i].json, "response_format")
        IN  IF inbound.route.endpoint = "chat" /\ FORCE_JSON_RESPONSE
            THEN /\ IsJsonFormat(outrf)
                 /\ outrf = (IF IsJsonFormat(inrf) THEN inrf ELSE JsonObjectFormat)
            ELSE /\ outrf = inrf
                 /\ "response_format" \in OKeys(calls[i].json)
                        <=> "response_format" \in OKeys(inbound.body)

C16_Witness ==
    /\ FORCE_JSON_RESPONSE
    /\ inbound.route.endpoint = "chat"
    /\ Len(calls) = 1
    /\ OGet(inbound.body, "response_format") = JStr("json")
    /\ OGet(calls[1].json, "response_format") = JsonObjectFormat

\* C17: the body sent upstream has the fields of the inbound body with the
\* same values, response_format apart, on the non-streaming path and on
\* the streaming one.
C17_BodyForwardedWhole ==
    \A i \in DOMAIN calls :
        \A k \in (OKeys(inbound.body) \cup OKeys(calls[i].json)) \ { "response_format" } :
            /\ k \in OKeys(inbound.body)
            /\ k \in OKeys(calls[i].json)
            /\ OGet(calls[i].json, k) = OGet(inbound.body, k)

C17_Witness ==
    /\ mode = "stream"
    /\ FORCE_JSON_RESPONSE
    /\ Len(calls) = 1
    /\ OGet(inbound.body, "response_format") = ODict(<< << "type", JStr("text") >> >>)
    /\ OGet(calls[1].json, "response_format") = JsonObjectFormat
    /\ OGet(calls[1].json, "stream") = JBool(TRUE)
    /\ OGet(calls[1].json, "model") = JStr("")
    /\ OGet(calls[1].json, "messages") = Messages

\* C18: the status of the answer the client receives for a streaming
\* request is the status the upstream answered with.
C18_StreamStatusRelayed ==
    (mode = "stream" /\ status_code # 0) => client.status_code = status_code

----------------------------------------------------------------------------
(* Properties of the stream after a client disconnect (Spec)               *)

\* C19: once the client has disconnected nothing happens any more: no
\* chunk is read from upstream, no record is emitted; and at the disconnect
\* the upstream connection is closed and at most one usage record exists.
C19_DisconnectStopsStream ==
    [][ /\ stream_end # "disconnected"
        /\ stream_end' = "disconnected" =>
              /\ ~conn_open'
              /\ sent' = sent
              /\ Len(records') <= 1
              /\ pc' = "done" ]_vars

C19_Witness ==
    /\ stream_end = "disconnected"
    /\ pc = "done"
    /\ sent # << >>
    /\ wire # << >>
    /\ relayed # sent
    /\ ~conn_open
    /\ Len(records) <= 1

----------------------------------------------------------------------------
(* Properties of gen_idempotency_key (SpecKey)                             *)

\* a request value without the order of its dicts' items
RECURSIVE Unordered(_)
Unordered(v) ==
    CASE v[1] = "odict" ->
            JObj([ k \in OKeys(v) |-> Unordered(OGet(v, k)) ])
      [] v[1] = "list" ->
            JList([ i \in DOMAIN v[2] |-> Unordered(v[2][i]) ])
      [] OTHER -> v

\* the two bodies have the same values in the six fields the key is made
\* of, an absent field being null
SameKeyFields(a, b) ==
    \A i \in DOMAIN IdempotencyFields :
        Unordered(OGet(a, IdempotencyFields[i])) = Unordered(OGet(b, IdempotencyFields[i]))

\* C13: two bodies with the same values in model, messages, tools,
\* tool_choice, response_format and temperature (absent counting as null)
\* get the same key, whatever the order of their fields at any depth and
\* whatever their other fields; a body always gets the same key.
C13_KeyOfWhitelistOnly ==
    key_out # << >> =>
        /\ SameKeyFields(key_pair[1], key_pair[2]) => key_out[1] = key_out[2]
        /\ key_pair[1] = key_pair[2] => key_out[1] = key_out[2]
        /\ key_out[1] = gen_idempotency_key(key_pair[1])

C13_Witness ==
    /\ key_out # << >>
    /\ key_pair[1] # key_pair[2]
    /\ OGet(key_pair[1], "response_format") = JsonSchemaFormat
    /\ OGet(key_pair[2], "response_format") = JsonSchemaFormatSwapped
    /\ "user" \in OKeys(key_pair[2]) \ OKeys(key_pair[1])
    /\ SameKeyFields(key_pair[1], key_pair[2])
    /\ key_out[1] = key_out[2]

----------------------------------------------------------------------------
(* Properties of the usage sink under concurrent requests (SpecLock)       *)

\* the requests between acquiring the lock and releasing it
InAppend == { w \in DOMAIN lk_pc : lk_pc[w] \in { "open", "write", "close" } }

\* C20: at most one request is inside the append at a time and it is the
\* one holding the lock; the lock is free whenever no request is inside,
\* also after an open or a write that raised; the file holds whole lines,
\* one per request that wrote, none twice.
C20_AppendsSerialized ==
    /\ Cardinality(InAppend) <= 1
    /\ InAppend = {} <=> lock_owner = 0
    /\ InAppend # {} => InAppend = { lock_owner }
    /\ \A i \in DOMAIN usage_log :
          \E w \in DOMAIN lk_pc :
              /\ usage_log[i] = UsageLine(writer_record(w))
              /\ lk_pc[w] \in { "close", "returned" }
    /\ \A i, j \in DOMAIN usage_log : usage_log[i] = usage_log[j] => i = j
    /\ \A w \in DOMAIN lk_pc :
          (lk_pc[w] = "returned" /\ USAGE_LOG_PATH # "") =>
              \E i \in DOMAIN usage_log : usage_log[i] = UsageLine(writer_record(w))

C20_Witness ==
    \E w1, w2, w3 \in DOMAIN lk_pc :
        /\ lk_pc[w1] = "write"
        /\ lock_owner = w1
        /\ lk_pc[w2] = "acquire"
        /\ lk_pc[w3] = "raised"
        /\ usage_log = << >>

----------------------------------------------------------------------------
(* Properties of the retry loop (SpecNonstream)                            *)

IsFailure(o) == o[1] = "http_error" \/ IsRetryableStatus(o)

\* C23: forward_nonstream ends whatever the upstream does; a transport
\* error (a connect or read timeout) is retried like a retryable status, in
\* any mix; the 4th failed attempt is the last call, it is answered 502 and
\* the 502 detail is the cause of that last attempt.
C23_RetriesEndWithLastCause ==
    /\ [](mode = "nonstream" =>
            /\ Len(outcomes) <= MAX_RETRIES + 1
            /\ Len(calls) = Len(outcomes)
            /\ \A i \in 1..(Len(outcomes) - 1) : IsFailure(outcomes[i])
            /\ (outcomes # << >> /\ IsFailure(outcomes[Len(outcomes)])) =>
                   /\ (pc = "done") <=> (Len(outcomes) = MAX_RETRIES + 1)
                   /\ (pc = "done") =>
                          (BadGateway /\ client.detail = outcomes[Len(outcomes)]))
    /\ ((pc = "start" /\ ~req.stream) ~> NsDone)

C23_Witness ==
    /\ NsDone
    /\ BadGateway
    /\ Len(calls) = MAX_RETRIES + 1
    /\ outcomes[1] = << "status", 503 >>
    /\ outcomes[2] = << "http_error", "ConnectTimeout" >>
    /\ outcomes[3] = << "status", 429 >>
    /\ outcomes[4] = << "http_error", "ReadTimeout" >>
    /\ client.detail = << "http_error", "ReadTimeout" >>

\* a key that is present in a JSON object
Present(obj, k) == IsDict(obj) /\ k \in DOMAIN obj[2]

\* the usage the claim finds in a parsed body: the first present of usage,
\* response.usage and output.usage, the empty dict when there is none
FirstPresentUsage(data) ==
    CASE Present(data, "usage") -> data[2].usage
      [] Present(data, "response") /\ Present(data[2].response, "usage") ->
             data[2].response[2].usage
      [] Present(data, "output") /\ Present(data[2].output, "usage") ->
             data[2].output[2].usage
      [] OTHER -> EmptyDict

\* C24: for a non-retryable upstream response (the usage sink working) one
\* record is emitted whose usage is the first present of usage,
\* response.usage, output.usage, and empty when there is none or the body is
\* no JSON object; the client gets the response with the upstream's status;
\* the 200 body with the counts 3, 5, 8 gives a record with those counts.
C24_FirstPresentUsageRecorded ==
    ( /\ NsDone
      /\ ~sink_raised
      /\ outcomes # << >>
      /\ outcomes[Len(outcomes)][1] = "status"
      /\ ~should_retry(outcomes[Len(outcomes)][2]) )
    => /\ Len(records) = 1
       /\ records[1].usage =
              (IF r_json(upstream.body) = Raised THEN EmptyDict
               ELSE FirstPresentUsage(r_json(upstream.body)))
       /\ client.status_code = upstream.status_code
       /\ (upstream.status_code = 200 /\ upstream.body = BodyUsage) =>
              records[1].usage = Usage358

\* C26: forward_nonstream does not wait before the first attempt, waits
\* once between two consecutive attempts and not after the last one; the
\* waits are 0.5 * 2^i + 0.05 * (i + 1) s for i = 0, 1, 2, that is 0.55 s,
\* 1.10 s and 2.15 s, strictly increasing.
C26_BackoffSchedule ==
    mode = "nonstream" =>
        /\ IsPrefix(slept, << 55, 110, 215 >>)
        /\ \A i \in 1..Len(slept) : slept[i] = 50 * (2 ^ (i - 1)) + 5 * i
        /\ \A i \in 1..(Len(slept) - 1) : slept[i] < slept[i + 1]
        /\ Len(slept) = (CASE pc = "ns_post" -> Len(outcomes)
                           [] outcomes = << >> -> 0
                           [] OTHER -> Len(outcomes) - 1)

C26_Witness ==
    /\ NsDone
    /\ BadGateway
    /\ Len(outcomes) = MAX_RETRIES + 1
    /\ slept = << 55, 110, 215 >>

\* C28: all upstream attempts of one non-streaming request, the first try
\* and every retry, go to the same URL with the same Idempotency-Key header
\* and the same body: those the handler computed before the first attempt.
C28_SameCallEveryAttempt ==
    mode = "nonstream" =>
        /\ req.idempotency_key = choose_idempotency_key(inbound, req.body).key
        /\ \A i \in DOMAIN calls :
              /\ calls[i] = calls[1]
              /\ calls[i].url = req.url
              /\ "Idempotency-Key" \in DOMAIN calls[i].headers
              /\ calls[i].headers["Idempotency-Key"] = req.idempotency_key
              /\ calls[i].json = req.body

C28_Witness ==
    /\ NsDone
    /\ BadGateway
    /\ gen_called
    /\ Len(calls) = MAX_RETRIES + 1
    /\ calls[MAX_RETRIES + 1].headers["Idempotency-Key"] = gen_idempotency_key(inbound.body)

----------------------------------------------------------------------------
(* Properties of the stream parser at the end of the stream (SpecParser)   *)

\* the part of a stream up to its last blank line
TerminatedPart(stream) ==
    LET P == SeparatorPositions(stream)
    IN  IF P = {} THEN << >>
        ELSE SubSeq(stream, 1, (CHOOSE i \in P : \A j \in P : j <= i) + 1)

\* C30: usage is taken only from event blocks ended by a blank line: after
\* each chunk the rolling buffer holds no complete block, and what it holds
\* when the upstream closes the stream is dropped unparsed, so a final
\* response.completed event without its blank line adds no usage to the
\* record.
C30_UnterminatedBlockIgnored ==
    mode = "stream" =>
        /\ ~HasSeparator(text_buf)
        /\ stream_end = "closed" =>
              /\ Len(records) = 1
              /\ TerminatedPart(sent) \o text_buf = sent
              /\ records[1].usage =
                     PyOr(Unsplit(TerminatedPart(sent)).usage_holder, EmptyDict)
              /\ sent = StreamUnterminated => records[1].usage = EmptyDict
              /\ sent = StreamCutShort => records[1].usage = UsageTotal(42)

C30_Witness ==
    /\ mode = "stream"
    /\ stream_end = "closed"
    /\ sent = StreamCutShort
    /\ text_buf = DataLine(EvUsage)
    /\ Len(blocks) = 1
    /\ Len(records) = 1

----------------------------------------------------------------------------
(* Properties of the text fragmentation (SpecChunks)                       *)

\* the sentences a chunk holds
ChunkSentences(j) == split_into_sentences(chunk_out[2][j])

\* the place of a chunk's first sentence in the text (every sentence of the
\* texts is different from the others)
StartOf(j, S) == CHOOSE i \in 1..Len(S) : S[i] = ChunkSentences(j)[1]

LastSentences(seq, k) == SubSeq(seq, Len(seq) - k + 1, Len(seq))

\* C27: for 0 <= k < n, an empty or whitespace-only text gives no chunk, a
\* text of at most n sentences gives one chunk holding them all, and
\* otherwise the chunks hold every sentence in the order of the text and
\* each chunk after the first begins with the last k sentences of the chunk
\* before it and shares nothing more with it.
C27_ChunksOverlapByK ==
    chunk_out[1] = "returned" =>
        LET text == chunk_args.text
            n == chunk_args.sentences_per_chunk
            k == chunk_args.overlap_sentences
            S == split_into_sentences(text)
            count == Len(chunk_out[2])
        IN  /\ strip(text) = << >> => count = 0
            /\ (strip(text) # << >> /\ Len(S) <= n) =>
                   (count = 1 /\ ChunkSentences(1) = S)
            /\ Len(S) > n =>
                   /\ \A j \in 1..count :
                         /\ ChunkSentences(j) # << >>
                         /\ ChunkSentences(j) =
                                SubSeq(S, StartOf(j, S),
                                       StartOf(j, S) + Len(ChunkSentences(j)) - 1)
                   /\ \A j \in 2..count : StartOf(j - 1, S) < StartOf(j, S)
                   /\ \A i \in 1..Len(S) : \E j \in 1..count :
                         /\ StartOf(j, S) <= i
                         /\ i < StartOf(j, S) + Len(ChunkSentences(j))
                   /\ \A j \in 2..count :
                         /\ Len(ChunkSentences(j)) >= k
                         /\ Len(ChunkSentences(j - 1)) >= k
                         /\ SubSeq(ChunkSentences(j), 1, k) =
                                LastSentences(ChunkSentences(j - 1), k)
                         /\ StartOf(j, S) + k =
                                StartOf(j - 1, S) + Len(ChunkSentences(j - 1))

----------------------------------------------------------------------------
(* Properties of requests in flight together (SpecConcurrent)              *)

Suspended == { "ns_post", "ns_sleep", "st_connect", "st_chunk" }

Finished(w) == lk_pc[w] \in { "returned", "raised" }

\* C25: a request suspended in an upstream connect, write or read, in the
\* wait for a stream chunk or in a backoff sleep does not hold the usage
\* lock, which is held only during one file append; so while the upstream
\* of one request hangs for ever, every other request runs to its end.
C25_RequestsDoNotBlockEachOther ==
    /\ [](\A w \in InFlight : lk_pc[w] \in Suspended => lock_owner # w)
    /\ [](lock_owner # 0 => lk_pc[lock_owner] \in { "open", "write", "close" })
    /\ <>(\A w \in InFlight \ { HungRequest } : Finished(w))

C25_Witness ==
    /\ scenario = "concurrent"
    /\ lk_pc[HungRequest] = "ns_post"
    /\ awaits[HungRequest] = 0
    /\ \A w \in InFlight \ { HungRequest } : lk_pc[w] = "returned"
    /\ usage_log # << >>

----------------------------------------------------------------------------
(* Properties of the document mutations (SpecRace, SpecDocs)               *)

UpdateMutations == { "Document_update", "Document_update_classification" }

\* the step in which the resolver of c's update returns
UpdateReturns(c) ==
    /\ mutations[c].pc = "loaded"
    /\ mutations[c].op \in UpdateMutations
    /\ mutations'[c].pc = "idle"

StaleDataError == ErrorOf(DOCUMENT_UPDATE_STALE_DATA)

CascadeRuns(c) ==
    /\ mutations[c].pc = "loaded"
    /\ mutations[c].op = "Document_delete"
    /\ mutations'[c].pc = "cascaded"

\* the step in which c's Document_delete returns None, the document deleted
DeleteSucceeds(c) ==
    /\ mutations[c].pc = "cascaded"
    /\ mutations'[c].pc = "idle"
    /\ doc_result'.result = Done

BystanderIntact == FragmentsOf(fragments, Bystander) = { manual_row(Bystander) }

C29_NoFragmentOutlivesDocument ==
    (/\ scenario = "documents"
     /\ ~SYNC_FRAGMENT_GENERATION
     /\ db_clock = 1
     /\ gen_task.pc = "done"
     /\ \A c \in Callers : mutations[c].pc = "idle"
     /\ doc_result # << >>
     /\ doc_result.op = "Document_delete"
     /\ doc_result.task_running
     /\ doc_result.result # ErrorOf(DOCUMENT_DELETE_NOT_FOUND))
        => FragmentsOf(fragments, Subject) = {}

====
